---- MODULE Spec2Model ----
(***************************************************************************)
(* Model of the bootstrap-css-variable-transformer.                        *)
(*                                                                         *)
(*   transformCss / transformWithAst / transformWithRegex                  *)
(*       (src/lib/transformer.ts, held in src/unnamed/part_004)            *)
(*   extractBootstrapVariables                                             *)
(*       (src/bin/extract-variables.ts, held in src/unnamed/part_005)      *)
(*                                                                         *)
(* A JavaScript string is a sequence of one-character strings, so that     *)
(* the regular expressions and the string methods of the code act on       *)
(* characters, as they do in the program.                                  *)
(***************************************************************************)
EXTENDS Integers, Sequences, FiniteSets, TLC

\* ------------------------------------------------------------------------
\* Characters and the string methods the code uses
\* ------------------------------------------------------------------------

LowerLetters == {"a", "b", "c", "d", "e", "f", "g", "h", "i", "j", "k", "l", "m", "n", "o", "p", "q", "r", "s", "t", "u", "v", "w", "x", "y", "z"}

UpperLetters == {"A", "B", "C", "D", "E", "F", "G", "H", "I", "J", "K", "L", "M", "N", "O", "P", "Q", "R", "S", "T", "U", "V", "W", "X", "Y", "Z"}

Digits == {"0", "1", "2", "3", "4", "5", "6", "7", "8", "9"}

ToLower == ("A" :> "a") @@ ("B" :> "b") @@ ("C" :> "c") @@ ("D" :> "d") @@ ("E" :> "e") @@ ("F" :> "f") @@ ("G" :> "g") @@ ("H" :> "h") @@ ("I" :> "i") @@ ("J" :> "j") @@ ("K" :> "k") @@ ("L" :> "l") @@ ("M" :> "m") @@ ("N" :> "n") @@ ("O" :> "o") @@ ("P" :> "p") @@ ("Q" :> "q") @@ ("R" :> "r") @@ ("S" :> "s") @@ ("T" :> "t") @@ ("U" :> "u") @@ ("V" :> "v") @@ ("W" :> "w") @@ ("X" :> "x") @@ ("Y" :> "y") @@ ("Z" :> "z")

\* the class [a-zA-Z0-9] of the literal pattern's lookarounds
IsAlnum(c) == c \in LowerLetters \cup UpperLetters \cup Digits

\* the class \s of the patterns, and the characters trim() strips
IsSpace(c) == c \in {" ", "\t", "\n", "\r", "\f"}

\* the "i" flag: two characters match when they agree up to letter case
Lower(c) == IF c \in UpperLetters THEN ToLower[c] ELSE c

\* String.prototype.startsWith
StartsWith(s, p) == Len(s) >= Len(p) /\ SubSeq(s, 1, Len(p)) = p

\* \s* from position i: the first position at or after i holding no space
RECURSIVE SkipSpace(_, _)
SkipSpace(s, i) ==
  IF i <= Len(s) /\ IsSpace(s[i]) THEN SkipSpace(s, i + 1) ELSE i

\* \s* read backwards from position i: the last position at or before i
\* holding no space (0 when there is none)
RECURSIVE SkipSpaceBack(_, _)
SkipSpaceBack(s, i) ==
  IF i >= 1 /\ IsSpace(s[i]) THEN SkipSpaceBack(s, i - 1) ELSE i

\* String.prototype.trim
Trim(s) ==
  LET a == SkipSpace(s, 1)
      b == SkipSpaceBack(s, Len(s))
  IN IF a > b THEN <<>> ELSE SubSeq(s, a, b)

Dashes == <<"-", "-">>

VarOpen == <<"v", "a", "r", "(">>

\* the template `var(${name})`
VarCall(name) == VarOpen \o name \o <<")">>

\* String.prototype.includes, for a needle of any length
Includes(s, p) ==
  \E i \in 1..(Len(s) - Len(p) + 1) : SubSeq(s, i, i + Len(p) - 1) = p

\* ------------------------------------------------------------------------
\* Mappings: a JavaScript object is a sequence of <<key, value>> entries
\* with distinct keys, in insertion order (the order Object.entries gives)
\* ------------------------------------------------------------------------

Keys(m) == {m[k][1] : k \in 1..Len(m)}

HasKey(m, key) == \E k \in 1..Len(m) : m[k][1] = key

\* m[key], for a key of m
Lookup(m, key) == LET k == CHOOSE k \in 1..Len(m) : m[k][1] = key IN m[k][2]

\* one property assignment: a present key keeps its place and takes the
\* new value, a new key is appended
SetEntry(m, e) ==
  IF HasKey(m, e[1])
  THEN [k \in 1..Len(m) |-> IF m[k][1] = e[1] THEN e ELSE m[k]]
  ELSE Append(m, e)

RECURSIVE SpreadInto(_, _)
SpreadInto(m, src) ==
  IF src = <<>> THEN m ELSE SpreadInto(SetEntry(m, Head(src)), Tail(src))

\* the merge with the spreads in the other order: defaults win
FinalMappingDefaultsWin(config) ==
  SpreadInto(SpreadInto(<<>>, config.overrides), config.defaultMapping)

\* const finalMapping = { ...config.defaultMapping, ...config.overrides }
FinalMapping(config) ==
  SpreadInto(SpreadInto(<<>>, config.defaultMapping), config.overrides)

\* the split of finalMapping into variable and literal entries
Variables(m) == SelectSeq(m, LAMBDA e : StartsWith(e[1], Dashes))

Literals(m) == SelectSeq(m, LAMBDA e : ~StartsWith(e[1], Dashes))

\* ------------------------------------------------------------------------
\* The regular expressions of transformWithRegex
\* ------------------------------------------------------------------------

\* the characters of the class [-\/\\^$*+?.()|[\]{}] that the code looks for
\* in a key before it builds a pattern from it
RegexSpecials == {"-", "/", "\\", "^", "$", "*", "+", "?", ".", "(", ")", "|", "[", "]", "{", "}"}

\* key.replace(/[-\/\\^$*+?.()|[\]{}]/g, "$&"): the replacement "$&" stands
\* for the matched text, so every special character is replaced by itself
RECURSIVE EscapeForRegex(_)
EscapeForRegex(key) ==
  IF key = <<>> THEN <<>>
  ELSE (IF Head(key) \in RegexSpecials THEN <<Head(key)>> ELSE <<Head(key)>>)
       \o EscapeForRegex(Tail(key))

\* new RegExp(...) of a pattern holding the source `src` raises SyntaxError
\* unless the groups of src are balanced and no escape is left open
RECURSIVE GroupsBalanced(_, _, _)
GroupsBalanced(src, i, depth) ==
  IF i > Len(src) THEN depth = 0
  ELSE IF src[i] = "\\" THEN i < Len(src) /\ GroupsBalanced(src, i + 2, depth)
  ELSE IF src[i] = "(" THEN GroupsBalanced(src, i + 1, depth + 1)
  ELSE IF src[i] = ")" THEN depth > 0 /\ GroupsBalanced(src, i + 1, depth - 1)
  ELSE GroupsBalanced(src, i + 1, depth)

RegExpCompiles(src) == GroupsBalanced(src, 1, 0)

\* what a compiled pattern source matches, one atom per character consumed:
\* an escaped character and an ordinary character stand for themselves,
\* "." stands for any character but a line terminator, and the parentheses
\* of a group consume nothing
RECURSIVE PatternAtoms(_, _)
PatternAtoms(src, i) ==
  IF i > Len(src) THEN <<>>
  ELSE IF src[i] = "\\" THEN <<[any |-> FALSE, ch |-> src[i + 1]]>> \o PatternAtoms(src, i + 2)
  ELSE IF src[i] \in {"(", ")"} THEN PatternAtoms(src, i + 1)
  ELSE IF src[i] = "." THEN <<[any |-> TRUE, ch |-> "."]>> \o PatternAtoms(src, i + 1)
  ELSE <<[any |-> FALSE, ch |-> src[i]]>> \o PatternAtoms(src, i + 1)

AtomMatches(atom, c) ==
  IF atom.any THEN c \notin {"\n", "\r"} ELSE Lower(atom.ch) = Lower(c)

\* the atoms match the text from position i on (flag "i")
AtomsMatchAt(atoms, text, i) ==
  /\ i + Len(atoms) - 1 <= Len(text)
  /\ \A j \in 1..Len(atoms) : AtomMatches(atoms[j], text[i + j - 1])

\* (?<![a-zA-Z0-9])KEY(?![a-zA-Z0-9]) matches at position i
LiteralMatchAt(atoms, text, i) ==
  /\ i = 1 \/ ~IsAlnum(text[i - 1])
  /\ AtomsMatchAt(atoms, text, i)
  /\ i + Len(atoms) > Len(text) \/ ~IsAlnum(text[i + Len(atoms)])

\* text.replace(literalRegex, () => ...) with the "g" flag: every match, left
\* to right, without overlap, gives way to what the callback returns;
\* `replaced` tells whether the callback ran
RECURSIVE ReplaceLiteral(_, _, _, _)
ReplaceLiteral(text, atoms, replacement, i) ==
  IF i > Len(text) THEN [css |-> <<>>, replaced |-> FALSE]
  ELSE IF LiteralMatchAt(atoms, text, i)
  THEN LET rest == ReplaceLiteral(text, atoms, replacement, i + Len(atoms))
       IN [css |-> replacement \o rest.css, replaced |-> TRUE]
  ELSE LET rest == ReplaceLiteral(text, atoms, replacement, i + 1)
       IN [css |-> <<text[i]>> \o rest.css, replaced |-> rest.replaced]

\* GetSubstitution: what replace() puts for a match at from..to of the text
\* when the replacement is given as a string: "$$" stands for "$", "$&" for
\* the matched text, "$`" for the text before the match and "$'" for the
\* text after it; every other character stands for itself ("$1".."$99" too,
\* as long as the key brings no group into the pattern)
RECURSIVE GetSubstitution(_, _, _, _)
GetSubstitution(replacement, text, from, to) ==
  IF replacement = <<>> THEN <<>>
  ELSE IF Head(replacement) = "$" /\ Len(replacement) >= 2
  THEN LET rest == GetSubstitution(SubSeq(replacement, 3, Len(replacement)), text, from, to)
       IN CASE replacement[2] = "$" -> <<"$">> \o rest
            [] replacement[2] = "&" -> SubSeq(text, from, to) \o rest
            [] replacement[2] = "`" -> SubSeq(text, 1, from - 1) \o rest
            [] replacement[2] = "'" -> SubSeq(text, to + 1, Len(text)) \o rest
            [] OTHER -> <<"$">> \o GetSubstitution(Tail(replacement), text, from, to)
  ELSE <<Head(replacement)>> \o GetSubstitution(Tail(replacement), text, from, to)

\* text.replace(literalRegex, replaceValue) with the "g" flag: the
\* replacement is a string
RECURSIVE ReplaceLiteralByString(_, _, _, _)
ReplaceLiteralByString(text, atoms, replaceValue, i) ==
  IF i > Len(text) THEN <<>>
  ELSE IF LiteralMatchAt(atoms, text, i)
  THEN GetSubstitution(replaceValue, text, i, i + Len(atoms) - 1)
       \o ReplaceLiteralByString(text, atoms, replaceValue, i + Len(atoms))
  ELSE <<text[i]>> \o ReplaceLiteralByString(text, atoms, replaceValue, i + 1)

\* var\s*\(\s*KEY\s*\) matches from position i: the position of its closing
\* parenthesis, or 0 when it does not match there
UsageMatchEnd(atoms, text, i) ==
  IF ~(i + 2 <= Len(text) /\ Lower(text[i]) = "v" /\ Lower(text[i + 1]) = "a"
        /\ Lower(text[i + 2]) = "r")
  THEN 0
  ELSE LET open == SkipSpace(text, i + 3) IN
    IF ~(open <= Len(text) /\ text[open] = "(") THEN 0
    ELSE LET name == SkipSpace(text, open + 1) IN
      IF ~AtomsMatchAt(atoms, text, name) THEN 0
      ELSE LET close == SkipSpace(text, name + Len(atoms)) IN
        IF close <= Len(text) /\ text[close] = ")" THEN close ELSE 0

\* text.replace(varRegex, () => ...) with the "g" flag
RECURSIVE ReplaceUsage(_, _, _, _)
ReplaceUsage(text, atoms, replacement, i) ==
  IF i > Len(text) THEN [css |-> <<>>, replaced |-> FALSE]
  ELSE LET close == UsageMatchEnd(atoms, text, i) IN
    IF close > 0
    THEN LET rest == ReplaceUsage(text, atoms, replacement, close + 1)
         IN [css |-> replacement \o rest.css, replaced |-> TRUE]
    ELSE LET rest == ReplaceUsage(text, atoms, replacement, i + 1)
         IN [css |-> <<text[i]>> \o rest.css, replaced |-> rest.replaced]

\* text.replace(varRegex, mappedVariable) with the "g" flag: the replacement
\* is a string
RECURSIVE ReplaceUsageByString(_, _, _, _)
ReplaceUsageByString(text, atoms, mappedVariable, i) ==
  IF i > Len(text) THEN <<>>
  ELSE LET close == UsageMatchEnd(atoms, text, i) IN
    IF close > 0
    THEN GetSubstitution(mappedVariable, text, i, close)
         \o ReplaceUsageByString(text, atoms, mappedVariable, close + 1)
    ELSE <<text[i]>> \o ReplaceUsageByString(text, atoms, mappedVariable, i + 1)

\* the first position at or after i holding ";" or "}" (Len + 1: none)
RECURSIVE NextTerminator(_, _)
NextTerminator(text, i) ==
  IF i > Len(text) \/ text[i] \in {";", "}"} THEN i ELSE NextTerminator(text, i + 1)

\* a declaration pattern that passes over a value already holding a var()
\* call
DeclarationMatchKeepingCalls(atoms, text, i) ==
  LET none == [end |-> 0, valueFrom |-> 0, valueTo |-> 0]
  IN IF ~AtomsMatchAt(atoms, text, i) THEN none
     ELSE LET colon == SkipSpace(text, i + Len(atoms)) IN
       IF ~(colon <= Len(text) /\ text[colon] = ":") THEN none
       ELSE LET term == NextTerminator(text, colon + 1) IN
         IF term > Len(text) THEN none
         ELSE LET from == SkipSpace(text, colon + 1)
                  to == SkipSpaceBack(text, term - 1)
              IN IF StartsWith(SubSeq(text, from, term - 1), VarOpen) THEN none
                 ELSE [end |-> term, valueFrom |-> from,
                       valueTo |-> IF to < from THEN from - 1 ELSE to]

\* (KEY\s*:\s*)([^;}]*?)(\s*[;}]) matches from position i: the three groups
\* as positions (group 1 is i..valueFrom-1, group 2 is valueFrom..valueTo,
\* group 3 is valueTo+1..end), or end = 0 when it does not match there
DeclarationMatch(atoms, text, i) ==
  LET none == [end |-> 0, valueFrom |-> 0, valueTo |-> 0]
  IN IF ~AtomsMatchAt(atoms, text, i) THEN none
     ELSE LET colon == SkipSpace(text, i + Len(atoms)) IN
       IF ~(colon <= Len(text) /\ text[colon] = ":") THEN none
       ELSE LET term == NextTerminator(text, colon + 1) IN
         IF term > Len(text) THEN none
         ELSE LET from == SkipSpace(text, colon + 1)
                  to == SkipSpaceBack(text, term - 1)
              IN [end |-> term, valueFrom |-> from,
                  valueTo |-> IF to < from THEN from - 1 ELSE to]

\* text.replace(declarationRegex, (match, propertyPart, _value, endPart) =>
\*   `${propertyPart}${replacement}${endPart}`) with the "g" flag
RECURSIVE ReplaceDeclaration(_, _, _, _)
ReplaceDeclaration(text, atoms, replacement, i) ==
  IF i > Len(text) THEN [css |-> <<>>, replaced |-> FALSE]
  ELSE LET m == DeclarationMatch(atoms, text, i) IN
    IF m.end > 0
    THEN LET rest == ReplaceDeclaration(text, atoms, replacement, m.end + 1)
         IN [css |-> SubSeq(text, i, m.valueFrom - 1) \o replacement
                     \o SubSeq(text, m.valueTo + 1, m.end) \o rest.css,
             replaced |-> TRUE]
    ELSE LET rest == ReplaceDeclaration(text, atoms, replacement, i + 1)
         IN [css |-> <<text[i]>> \o rest.css, replaced |-> rest.replaced]

\* ------------------------------------------------------------------------
\* transformWithRegex: the three passes
\* ------------------------------------------------------------------------

\* the state a pass hands on: the text so far, the set so far, and whether
\* building a pattern raised
Thrown(css, tv) == [threw |-> TRUE, css |-> css, targetVariables |-> tv]

Kept(css, tv) == [threw |-> FALSE, css |-> css, targetVariables |-> tv]

\* one turn of the loop "for (const [searchValue, replaceValue] of literals)"
LiteralEntry(css, tv, entry) ==
  LET src == EscapeForRegex(entry[1])
      replaceValue == entry[2]
  IN IF ~RegExpCompiles(src) THEN Thrown(css, tv)
     ELSE IF StartsWith(replaceValue, Dashes)
     THEN LET r == ReplaceLiteral(css, PatternAtoms(src, 1), VarCall(replaceValue), 1)
          IN Kept(r.css, IF r.replaced THEN tv \cup {replaceValue} ELSE tv)
     ELSE Kept(ReplaceLiteralByString(css, PatternAtoms(src, 1), replaceValue, 1), tv)

\* one turn of the second loop "for (const [variableName, mappedVariable] of
\* variables)": var() usages
UsageEntry(css, tv, entry) ==
  LET src == EscapeForRegex(entry[1])
      mappedVariable == entry[2]
  IN IF ~RegExpCompiles(src) THEN Thrown(css, tv)
     ELSE IF StartsWith(mappedVariable, Dashes)
     THEN LET r == ReplaceUsage(css, PatternAtoms(src, 1), VarCall(mappedVariable), 1)
          IN Kept(r.css, IF r.replaced THEN tv \cup {mappedVariable} ELSE tv)
     ELSE Kept(ReplaceUsageByString(css, PatternAtoms(src, 1), mappedVariable, 1), tv)

\* one turn of the third loop: declaration values
DeclarationEntry(css, tv, entry) ==
  LET src == EscapeForRegex(entry[1])
      mappedVariable == entry[2]
  IN IF ~RegExpCompiles(src) THEN Thrown(css, tv)
     ELSE IF StartsWith(mappedVariable, Dashes)
     THEN LET r == ReplaceDeclaration(css, PatternAtoms(src, 1), VarCall(mappedVariable), 1)
          IN Kept(r.css, IF r.replaced THEN tv \cup {mappedVariable} ELSE tv)
     ELSE Kept(ReplaceDeclaration(css, PatternAtoms(src, 1), mappedVariable, 1).css, tv)

\* 1. Process Literal Value Replacements First
RECURSIVE LiteralPass(_, _, _, _)
LiteralPass(literals, k, css, tv) ==
  IF k > Len(literals) THEN Kept(css, tv)
  ELSE LET r == LiteralEntry(css, tv, literals[k])
       IN IF r.threw THEN r ELSE LiteralPass(literals, k + 1, r.css, r.targetVariables)

\* 2. Process Variable Reference Replacements Second
RECURSIVE UsagePass(_, _, _, _)
UsagePass(variables, k, css, tv) ==
  IF k > Len(variables) THEN Kept(css, tv)
  ELSE LET r == UsageEntry(css, tv, variables[k])
       IN IF r.threw THEN r ELSE UsagePass(variables, k + 1, r.css, r.targetVariables)

\* 3. Process Variable Declaration Value Replacements Third
RECURSIVE DeclarationPass(_, _, _, _)
DeclarationPass(variables, k, css, tv) ==
  IF k > Len(variables) THEN Kept(css, tv)
  ELSE LET r == DeclarationEntry(css, tv, variables[k])
       IN IF r.threw THEN r ELSE DeclarationPass(variables, k + 1, r.css, r.targetVariables)

\* transformWithRegex as a function of its arguments: the three passes in
\* the order of the code, an exception ending the call at once
RegexResult(css, config) ==
  LET m == FinalMapping(config)
      p1 == LiteralPass(Literals(m), 1, css, {})
      p2 == UsagePass(Variables(m), 1, p1.css, p1.targetVariables)
      p3 == DeclarationPass(Variables(m), 1, p2.css, p2.targetVariables)
  IN IF p1.threw THEN p1 ELSE IF p2.threw THEN p2 ELSE p3

\* ------------------------------------------------------------------------
\* transformWithAst: the Declaration visitor and the transform() around it
\* ------------------------------------------------------------------------

\* the token array the visitor builds for a mapped value, each token as a
\* record: `name` holds a function's name or a dimension's unit, `value` the
\* text or the number of the token, `parts` the components of a colour. A
\* number is kept as the decimal text JavaScript shows it with.
VarFunction(name) == [type |-> "function", name |-> VarOpen, value |-> name, parts |-> <<>>]

IdentToken(text) == [type |-> "ident", name |-> <<>>, value |-> text, parts |-> <<>>]

HashToken(text) == [type |-> "hash", name |-> <<>>, value |-> text, parts |-> <<>>]

DimensionToken(num, unit) == [type |-> "dimension", name |-> unit, value |-> num, parts |-> <<>>]

NumberToken(num) == [type |-> "number", name |-> <<>>, value |-> num, parts |-> <<>>]

CommaToken == [type |-> "comma", name |-> <<>>, value |-> <<>>, parts |-> <<>>]

WhiteSpaceToken == [type |-> "white-space", name |-> <<>>, value |-> <<" ">>, parts |-> <<>>]

ColorToken(r, g, b, alpha) ==
  [type |-> "color", name |-> <<>>, value |-> <<>>, parts |-> <<r, g, b, alpha>>]

\* the class [\w-] of the var() pattern
IsWordOrDash(c) == IsAlnum(c) \/ c \in {"_", "-"}

RECURSIVE SkipWord(_, _)
SkipWord(s, i) ==
  IF i <= Len(s) /\ IsWordOrDash(s[i]) THEN SkipWord(s, i + 1) ELSE i

\* \d* from position i: the first position at or after i holding no digit
RECURSIVE SkipDigits(_, _)
SkipDigits(s, i) ==
  IF i <= Len(s) /\ s[i] \in Digits THEN SkipDigits(s, i + 1) ELSE i

\* String.prototype.toLowerCase
LowerCase(s) == [k \in 1..Len(s) |-> Lower(s[k])]

\* /var\(\s*(--[\w-]+)\s*\)/ matches from position i: the captured name, or
\* <<>> when the pattern does not match there
VarNameAt(mappedValue, i) ==
  LET from == SkipSpace(mappedValue, i + 4)
      to == SkipWord(mappedValue, from)
      close == SkipSpace(mappedValue, to)
  IN IF /\ i + 3 <= Len(mappedValue)
        /\ SubSeq(mappedValue, i, i + 3) = VarOpen
        /\ to - from >= 3
        /\ SubSeq(mappedValue, from, from + 1) = Dashes
        /\ close <= Len(mappedValue)
        /\ mappedValue[close] = ")"
     THEN SubSeq(mappedValue, from, to - 1)
     ELSE <<>>

\* mappedValue.match(/var\(\s*(--[\w-]+)\s*\)/)?.[1]: the pattern is anchored
\* at neither end, so the first place where it matches gives the name
MatchedVarName(mappedValue) ==
  LET places == {i \in 1..Len(mappedValue) : VarNameAt(mappedValue, i) # <<>>}
  IN IF places = {} THEN <<>>
     ELSE VarNameAt(mappedValue, CHOOSE i \in places : \A k \in places : i <= k)

\* a number pattern that lets the digits after the point be missing:
\* /^-?\d+\.?\d*$/
NumberRegexTestLoose(s) ==
  LET from == IF s # <<>> /\ Head(s) = "-" THEN 2 ELSE 1
      dot == SkipDigits(s, from)
  IN /\ dot > from
     /\ \/ dot = Len(s) + 1
        \/ /\ s[dot] = "."
           /\ SkipDigits(s, dot + 1) = Len(s) + 1

\* numberRegex = /^-?\d+(\.\d+)?$/
NumberRegexTest(s) ==
  LET from == IF s # <<>> /\ Head(s) = "-" THEN 2 ELSE 1
      dot == SkipDigits(s, from)
  IN /\ dot > from
     /\ \/ dot = Len(s) + 1
        \/ /\ s[dot] = "."
           /\ dot < Len(s)
           /\ SkipDigits(s, dot + 1) = Len(s) + 1

\* the units of dimensionRegex, which has the flag "i"
Units ==
  { <<"p", "x">>, <<"e", "m">>, <<"r", "e", "m">>, <<"%">>, <<"v", "h">>,
    <<"v", "w">>, <<"v", "m", "i", "n">>, <<"v", "m", "a", "x">>,
    <<"c", "m">>, <<"m", "m">>, <<"i", "n">>, <<"p", "t">>, <<"p", "c">>,
    <<"e", "x">>, <<"c", "h">>, <<"l", "h">>, <<"r", "l", "h">>,
    <<"d", "e", "g">>, <<"r", "a", "d">>, <<"g", "r", "a", "d">>,
    <<"t", "u", "r", "n">>, <<"s">>, <<"m", "s">>, <<"h", "z">>,
    <<"k", "h", "z">>, <<"d", "p", "i">>, <<"d", "p", "c", "m">>,
    <<"d", "p", "p", "x">>, <<"f", "r">> }

\* dimensionRegex = /^(-?\d+(\.\d+)?)(px|em|...|fr)$/i matches: the length of
\* its first group, or 0 when it does not match
DimensionNumberLength(s) ==
  LET splits == {k \in 1..(Len(s) - 1) :
                   /\ NumberRegexTest(SubSeq(s, 1, k))
                   /\ LowerCase(SubSeq(s, k + 1, Len(s))) \in Units}
  IN IF splits = {} THEN 0 ELSE CHOOSE k \in splits : TRUE

RECURSIVE StripLeadingZeros(_)
StripLeadingZeros(digits) ==
  IF Len(digits) > 1 /\ Head(digits) = "0" THEN StripLeadingZeros(Tail(digits))
  ELSE digits

RECURSIVE StripTrailingZeros(_)
StripTrailingZeros(digits) ==
  IF digits # <<>> /\ digits[Len(digits)] = "0"
  THEN StripTrailingZeros(SubSeq(digits, 1, Len(digits) - 1))
  ELSE digits

\* Number.parseFloat and Number of a text of the form -?\d*(\.\d+)?, as the
\* decimal text of the number: no leading zeros, no trailing zeros of the
\* fraction (texts short enough for the number to be exact)
ParseFloat(s) ==
  LET from == IF s # <<>> /\ Head(s) = "-" THEN 2 ELSE 1
      dot == SkipDigits(s, from)
      int == IF dot = from THEN <<"0">> ELSE StripLeadingZeros(SubSeq(s, from, dot - 1))
      frac == IF dot < Len(s) THEN StripTrailingZeros(SubSeq(s, dot + 1, Len(s))) ELSE <<>>
  IN (IF from = 2 THEN <<"-">> ELSE <<>>) \o int
     \o (IF frac = <<>> THEN <<>> ELSE <<".">> \o frac)

RgbaOpen == <<"r", "g", "b", "a", "(">>

\* \s*,\s* from position i: the position after it, or 0
SkipComma(s, i) ==
  LET comma == SkipSpace(s, i)
  IN IF comma <= Len(s) /\ s[comma] = "," THEN SkipSpace(s, comma + 1) ELSE 0

\* the groups of /rgba\((\d+)\s*,\s*(\d+)\s*,\s*(\d+)\s*,\s*(\d*\.?\d+)\)/
\* from position i on, the groups before it being read already: three times
\* digits and a comma, then the alpha text and the closing parenthesis;
\* <<>> when the text does not go on as the pattern asks
RECURSIVE RgbaGroupsFrom(_, _, _)
RgbaGroupsFrom(s, i, groups) ==
  IF Len(groups) < 3
  THEN LET end == SkipDigits(s, i)
       IN IF end = i \/ SkipComma(s, end) = 0 THEN <<>>
          ELSE RgbaGroupsFrom(s, SkipComma(s, end), Append(groups, SubSeq(s, i, end - 1)))
  ELSE LET dot == SkipDigits(s, i)
           pointed == dot <= Len(s) /\ s[dot] = "."
           end == IF pointed THEN SkipDigits(s, dot + 1) ELSE dot
       IN IF /\ IF pointed THEN end > dot + 1 ELSE end > i
             /\ end <= Len(s)
             /\ s[end] = ")"
          THEN Append(groups, SubSeq(s, i, end - 1))
          ELSE <<>>

\* the pattern matches from position i: the four groups as texts, or <<>>
\* when it does not match there
RgbaGroupsAt(s, i) ==
  IF i + 4 <= Len(s) /\ SubSeq(s, i, i + 4) = RgbaOpen
  THEN RgbaGroupsFrom(s, i + 5, <<>>)
  ELSE <<>>

\* mappedValue.match(/rgba\(...\)/): the groups of the first match, the
\* pattern being anchored at neither end
RgbaGroups(mappedValue) ==
  LET places == {i \in 1..Len(mappedValue) : RgbaGroupsAt(mappedValue, i) # <<>>}
  IN IF places = {} THEN <<>>
     ELSE RgbaGroupsAt(mappedValue, CHOOSE i \in places : \A k \in places : i <= k)

\* mappedValue.split(",")
RECURSIVE Split(_, _)
Split(s, part) ==
  IF s = <<>> THEN <<part>>
  ELSE IF Head(s) = "," THEN <<part>> \o Split(Tail(s), <<>>)
  ELSE Split(Tail(s), Append(part, Head(s)))

\* a list whose numbers are parted by a comma token alone
RECURSIVE NumberListTokensNoSpace(_)
NumberListTokensNoSpace(parts) ==
  IF parts = <<>> THEN <<>>
  ELSE <<NumberToken(ParseFloat(Trim(Head(parts))))>>
       \o (IF Len(parts) > 1 THEN <<CommaToken>> ELSE <<>>)
       \o NumberListTokensNoSpace(Tail(parts))

\* parts.flatMap((part, index) => [number, comma, white-space]), the last
\* part giving its number only
RECURSIVE NumberListTokens(_)
NumberListTokens(parts) ==
  IF parts = <<>> THEN <<>>
  ELSE <<NumberToken(ParseFloat(Trim(Head(parts))))>>
       \o (IF Len(parts) > 1 THEN <<CommaToken, WhiteSpaceToken>> ELSE <<>>)
       \o NumberListTokens(Tail(parts))

\* const [, r, g, b, a] = match.map(Number) and the colour token of them
RgbColor(match) ==
  ColorToken(ParseFloat(match[1]), ParseFloat(match[2]), ParseFloat(match[3]),
             ParseFloat(match[4]))

\* const keywords = new Set([...])
Keywords ==
  { <<"n", "o", "n", "e">>, <<"i", "n", "h", "e", "r", "i", "t">>,
    <<"i", "n", "i", "t", "i", "a", "l">>, <<"u", "n", "s", "e", "t">>,
    <<"r", "e", "v", "e", "r", "t">>, <<"a", "u", "t", "o">>,
    <<"s", "o", "l", "i", "d">>,
    <<"t", "r", "a", "n", "s", "p", "a", "r", "e", "n", "t">>,
    <<"c", "u", "r", "r", "e", "n", "t", "C", "o", "l", "o", "r">> }

\* the branches of the visitor that decide the new value of a mapped
\* declaration
NewValueTokens(mappedValue) ==
  IF StartsWith(mappedValue, Dashes) THEN <<VarFunction(mappedValue)>>
  ELSE IF StartsWith(mappedValue, VarOpen)
  THEN IF MatchedVarName(mappedValue) # <<>>
       THEN <<VarFunction(MatchedVarName(mappedValue))>>
       ELSE <<IdentToken(mappedValue)>>
  ELSE IF DimensionNumberLength(mappedValue) > 0
  THEN LET k == DimensionNumberLength(mappedValue)
       IN <<DimensionToken(ParseFloat(SubSeq(mappedValue, 1, k)),
                           LowerCase(SubSeq(mappedValue, k + 1, Len(mappedValue))))>>
  ELSE IF NumberRegexTest(mappedValue) THEN <<NumberToken(ParseFloat(mappedValue))>>
  ELSE IF StartsWith(mappedValue, <<"#">>) THEN <<HashToken(Tail(mappedValue))>>
  ELSE IF StartsWith(mappedValue, RgbaOpen)
  THEN IF RgbaGroups(mappedValue) # <<>>
       THEN <<RgbColor(RgbaGroups(mappedValue))>>
       ELSE <<IdentToken(mappedValue)>>
  ELSE IF /\ \E k \in 1..Len(mappedValue) : mappedValue[k] = ","
          /\ \A k \in 1..Len(Split(mappedValue, <<>>)) :
               NumberRegexTest(Trim(Split(mappedValue, <<>>)[k]))
  THEN NumberListTokens(Split(mappedValue, <<>>))
  ELSE IF LowerCase(mappedValue) \in Keywords THEN <<IdentToken(mappedValue)>>
  ELSE <<IdentToken(mappedValue)>>

\* the names the visitor adds to targetVariables for a mapped value: only
\* the branch of the "--" prefix calls targetVariables.add
VisitorTargets(mappedValue) ==
  IF StartsWith(mappedValue, Dashes) THEN {mappedValue} ELSE {}

\* the printer's text of an identifier: a character that cannot stand in a
\* name is written behind a backslash
RECURSIVE PrintIdent(_)
PrintIdent(value) ==
  IF value = <<>> THEN <<>>
  ELSE (IF IsWordOrDash(Head(value)) THEN <<Head(value)>> ELSE <<"\\", Head(value)>>)
       \o PrintIdent(Tail(value))

\* the printer's text of one token (the notation the printer picks for a
\* colour is its own, and no stylesheet printed here holds one)
PrintToken(tok) ==
  IF tok.type = "function" THEN tok.name \o PrintIdent(tok.value) \o <<")">>
  ELSE IF tok.type = "hash" THEN <<"#">> \o tok.value
  ELSE IF tok.type = "dimension" THEN tok.value \o tok.name
  ELSE IF tok.type = "number" THEN tok.value
  ELSE IF tok.type = "comma" THEN <<",", " ">>
  ELSE IF tok.type = "white-space" THEN tok.value
  ELSE PrintIdent(tok.value)

RECURSIVE PrintTokens(_)
PrintTokens(toks) ==
  IF toks = <<>> THEN <<>> ELSE PrintToken(Head(toks)) \o PrintTokens(Tail(toks))

\* the position of the first ":" of s, or 0
RECURSIVE FirstColon(_, _)
FirstColon(s, i) ==
  IF i > Len(s) THEN 0 ELSE IF s[i] = ":" THEN i ELSE FirstColon(s, i + 1)

\* a visitor that rewrites the var() usage of a mapped variable in the value
\* of any declaration
VisitDeclarationRewritingUsages(seg, mapping) ==
  LET colon == FirstColon(seg, 1)
      value == SubSeq(seg, colon + 1, Len(seg))
      used == {k \in 1..Len(mapping) : value = VarCall(mapping[k][1])}
  IN IF colon > 0 /\ used # {}
     THEN [css |-> SubSeq(seg, 1, colon) \o VarCall(mapping[CHOOSE k \in used : TRUE][2]),
           targetVariables |-> {}]
     ELSE [css |-> seg, targetVariables |-> {}]

\* Declaration(declaration) on the declaration whose source text is seg:
\* the text of the declaration the visitor returns and the names it records.
\* finalMapping[variableName] must be a non-empty string to count as mapped.
VisitDeclaration(seg, mapping) ==
  LET colon == FirstColon(seg, 1)
      variableName == Trim(SubSeq(seg, 1, colon - 1))
  IN IF /\ colon > 0
        /\ StartsWith(variableName, Dashes)
        /\ HasKey(mapping, variableName)
        /\ Lookup(mapping, variableName) # <<>>
     THEN [css |-> SubSeq(seg, 1, colon)
                   \o PrintTokens(NewValueTokens(Lookup(mapping, variableName))),
           targetVariables |-> VisitorTargets(Lookup(mapping, variableName))]
     ELSE [css |-> seg, targetVariables |-> {}]

\* the first position at or after i holding ";", "{" or "}" (Len + 1: none)
RECURSIVE NextDelimiter(_, _)
NextDelimiter(text, i) ==
  IF i > Len(text) \/ text[i] \in {";", "{", "}"} THEN i ELSE NextDelimiter(text, i + 1)

\* transform({code, visitor}): the stylesheet is read as the texts between
\* its delimiters; a text closed by ";" or "}" (or by the end) is a
\* declaration and is handed to the visitor, a text closed by "{" is a
\* rule's prelude; the printer writes everything else back as it was
RECURSIVE LightningTransform(_, _, _)
LightningTransform(text, i, mapping) ==
  IF i > Len(text) THEN [css |-> <<>>, targetVariables |-> {}]
  ELSE LET d == NextDelimiter(text, i)
           seg == SubSeq(text, i, d - 1)
           v == IF d <= Len(text) /\ text[d] = "{"
                THEN [css |-> seg, targetVariables |-> {}]
                ELSE VisitDeclaration(seg, mapping)
           rest == LightningTransform(text, d + 1, mapping)
       IN [css |-> v.css \o (IF d <= Len(text) THEN <<text[d]>> ELSE <<>>) \o rest.css,
           targetVariables |-> v.targetVariables \cup rest.targetVariables]

\* transformWithAst on the path where transform() returns
AstResult(css, config) == LightningTransform(css, 1, FinalMapping(config))

\* ------------------------------------------------------------------------
\* The calls the model makes: stylesheets, configurations, methods
\* ------------------------------------------------------------------------

\* the most entries config.defaultMapping holds
MaxEntries == 2

\* the keys and the replacement strings of the configurations
KeyA == <<"-", "-", "a">>

KeyB == <<"-", "-", "b">>

KeyHex == <<"#", "f">>

KeyWord == <<"r">>

KeyParen == <<"a", "(">>

KeyDot == <<"1", ".", "5">>

ThemeT == <<"-", "-", "t">>

ThemeW == <<"-", "-", "w">>

ThemeR == <<"-", "-", "r">>

PlainX == <<"x">>

PlainMatched == <<"$", "&">>

MappingEntries ==
  { <<KeyA, ThemeT>>, <<KeyA, KeyB>>, <<KeyA, PlainX>>, <<KeyB, ThemeT>>,
    <<KeyHex, ThemeW>>, <<KeyHex, PlainX>>, <<KeyWord, ThemeR>>,
    <<KeyParen, ThemeT>>, <<KeyDot, ThemeT>>, <<KeyHex, PlainMatched>>,
    <<KeyA, PlainMatched>> }

DistinctKeys(m) == \A j, k \in 1..Len(m) : j # k => m[j][1] # m[k][1]

DefaultMappings ==
  { m \in UNION {[1..n -> MappingEntries] : n \in 0..MaxEntries} : DistinctKeys(m) }

OverrideMappings == { <<>>, <<<<KeyA, ThemeW>>>>, <<<<KeyHex, ThemeT>>>> }

Configs == [defaultMapping : DefaultMappings, overrides : OverrideMappings]

Methods == {"ast", "regex", "invalid-method"}

\* --a:#f;
CssDeclHex == <<"-", "-", "a", ":", "#", "f", ";">>

\* c:var(--a);
CssUsage == <<"c", ":", "v", "a", "r", "(", "-", "-", "a", ")", ";">>

\* a{--a:#f;c:var(--a)}
CssRule == <<"a", "{", "-", "-", "a", ":", "#", "f", ";", "c", ":", "v", "a", "r", "(", "-", "-", "a", ")", "}">>

\* c:var( --A );
CssUsageSpaced == <<"c", ":", "v", "a", "r", "(", " ", "-", "-", "A", " ", ")", ";">>

\* c:var(--ab);
CssUsageLonger == <<"c", ":", "v", "a", "r", "(", "-", "-", "a", "b", ")", ";">>

\* c:#ff;--ab:#f;
CssHexLonger == <<"c", ":", "#", "f", "f", ";", "-", "-", "a", "b", ":", "#", "f", ";">>

\* c:r;
CssWord == <<"c", ":", "r", ";">>

\* --b:var(--a);
CssDeclOfB == <<"-", "-", "b", ":", "v", "a", "r", "(", "-", "-", "a", ")", ";">>

\* c:125;d:1.5}
CssNumbers == <<"c", ":", "1", "2", "5", ";", "d", ":", "1", ".", "5", "}">>

\* a{c:#f;--a:r   (the end of the input closes the declaration and the rule)
CssUnclosed == <<"a", "{", "c", ":", "#", "f", ";", "-", "-", "a", ":", "r">>

Important == <<"!", "i", "m", "p", "o", "r", "t", "a", "n", "t">>

\* --a:x !important;
CssImportant == <<"-", "-", "a", ":", "x", " ">> \o Important \o <<";">>

Stylesheets ==
  { <<>>, <<" ", "\n">>, CssDeclHex, CssUsage, CssRule, CssUsageSpaced,
    CssUsageLonger, CssHexLonger, CssWord, CssDeclOfB, CssNumbers,
    CssUnclosed, CssImportant }

\* ------------------------------------------------------------------------
\* transformCss as a state machine
\* ------------------------------------------------------------------------

VARIABLES
  cssContent,          \* argument: the raw CSS string
  config,              \* argument: {defaultMapping, overrides}
  method,              \* argument: the transform method
  pc,                  \* where the call stands
  transformedCss,      \* transformWithRegex: let transformedCss
  targetVariables,     \* transformWithRegex: const targetVariables
  astTargetVariables,  \* transformWithAst: const targetVariables
  ran,                 \* the strategies entered so far
  diagnostics,         \* the console calls made so far
  result,              \* the TransformResult returned
  uncaught             \* an exception left transformCss

transformVars == <<cssContent, config, method, pc, transformedCss, targetVariables,
                   astTargetVariables, ran, diagnostics, result, uncaught>>

\* extractBootstrapVariables: the state of one call
VARIABLES
  matches,             \* cssContent.match(varRegex), as <<name, value>> texts
  declarations,        \* const declarations
  resolvedValues,      \* const resolvedValues
  depth,               \* let depth, as each property's loop left it
  warnings,            \* the console.warn calls made so far
  aliases,             \* const aliases
  epc,                 \* where the call stands
  extraction           \* the ExtractionResult returned

extractVars == <<matches, declarations, resolvedValues, depth, warnings,
                 aliases, epc, extraction>>

\* runTransformation: the state of one run of the command line
VARIABLES
  options,             \* argument: {output, overrides, method}; the input and
                       \* the config paths matter only through the files below
  inputFile,           \* the file at options.input
  configFile,          \* the file at options.config
  overridesFile,       \* the file at options.overrides
  written,             \* the writeFileSync calls that returned, in order
  caught,              \* the step whose exception reached the catch block
  cpc                  \* where the run stands

cliVars == <<options, inputFile, configFile, overridesFile, written, caught, cpc>>

\* the Declaration visitor on one mapped custom property
VARIABLES
  mappedValue,         \* const mappedValue = finalMapping[variableName]
  newValueTokens,      \* the value of the declaration the visitor returns
  added,               \* the names given to targetVariables.add
  vpc                  \* where the visit stands

visitVars == <<mappedValue, newValueTokens, added, vpc>>

vars == <<transformVars, extractVars, cliVars, visitVars>>

NoExtraction == [resolvedValues |-> <<>>, aliases |-> <<>>]

\* no call of extractBootstrapVariables is under way
ExtractIdle ==
  /\ matches = <<>>
  /\ declarations = <<>>
  /\ resolvedValues = <<>>
  /\ depth = <<>>
  /\ warnings = {}
  /\ aliases = <<>>
  /\ epc = "idle"
  /\ extraction = NoExtraction

\* a file readFileSync cannot read
Unreadable == [ok |-> FALSE, content |-> <<>>]

EmptyConfig == [defaultMapping |-> <<>>, overrides |-> <<>>]

\* a configuration file that cannot be read, parsed or validated
Invalid == [ok |-> FALSE, content |-> EmptyConfig]

\* a file that can be read: its text or, for a configuration file, the
\* data the schema hands back for it
Readable(content) == [ok |-> TRUE, content |-> content]

NoOptions == [output |-> <<>>, overrides |-> FALSE, method |-> "ast"]

\* no run of the command line is under way
CliIdle ==
  /\ options = NoOptions
  /\ inputFile = Unreadable
  /\ configFile = Invalid
  /\ overridesFile = Invalid
  /\ written = <<>>
  /\ caught = "none"
  /\ cpc = "idle"

\* no declaration is being visited
VisitIdle ==
  /\ mappedValue = <<>>
  /\ newValueTokens = <<>>
  /\ added = {}
  /\ vpc = "idle"

NoResult == [css |-> <<>>, targetVariables |-> {}]

Init ==
  /\ cssContent \in Stylesheets
  /\ config \in Configs
  /\ method \in Methods
  /\ pc = "call"
  /\ transformedCss = <<>>
  /\ targetVariables = {}
  /\ astTargetVariables = {}
  /\ ran = {}
  /\ diagnostics = {}
  /\ result = NoResult
  /\ uncaught = FALSE
  /\ ExtractIdle
  /\ CliIdle
  /\ VisitIdle

\* the console calls of the transformer
WarnUnknownMethod == "warn: Unknown transform method, falling back to AST"

InfoAstSuccessful == "info: AST transformation successful."

ErrorAst == "error: Error during AST transformation"

WarnFallback == "warn: Falling back to REGEX transformation..."

ErrorTransform == "error: Error during CSS transformation"

\* the guard without trim()
IsBlankNoTrim(css) == css = <<>>

\* if (!cssContent.trim()) return { css: "", targetVariables: new Set() }
IsBlank(css) == Trim(css) = <<>>

\* the switch with the default branch calling transformWithRegex
SelectedStrategyRegexDefault(m) == IF m = "ast" THEN "ast" ELSE "regex"

\* the switch of transformCss: the strategy a method selects
SelectedStrategy(m) == IF m = "regex" THEN "regex" ELSE "ast"

\* the warning of the switch's default branch
SelectionWarnings(m) ==
  IF m \in {"ast", "regex"} THEN {} ELSE {WarnUnknownMethod}

\* a transformCss without its catch block
OnErrorRethrow(css) == [result |-> NoResult, uncaught |-> TRUE]

\* the catch block of transformCss: what the call ends with when the chosen
\* strategy raised
OnError(css) ==
  [result |-> [css |-> css, targetVariables |-> {}], uncaught |-> FALSE]

\* a fallback that hands the visitor's set on to the caller
FallbackResultShared(regex, astSet) ==
  [css |-> regex.css, targetVariables |-> regex.targetVariables \cup astSet]

\* the catch block of transformWithAst: what the call returns when the
\* regex fallback ended without raising
FallbackResult(regex, astSet) ==
  [css |-> regex.css, targetVariables |-> regex.targetVariables]

\* transformCss, up to the call of the strategy
Call ==
  /\ pc = "call"
  /\ IF IsBlank(cssContent)
     THEN /\ result' = [css |-> <<>>, targetVariables |-> {}]
          /\ pc' = "returned"
          /\ UNCHANGED <<transformedCss, ran, diagnostics>>
     ELSE /\ diagnostics' = diagnostics \cup SelectionWarnings(method)
          /\ ran' = ran \cup {SelectedStrategy(method)}
          /\ pc' = IF SelectedStrategy(method) = "regex" THEN "literals" ELSE "ast"
          /\ transformedCss' = cssContent
          /\ UNCHANGED result
  /\ UNCHANGED <<cssContent, config, method, targetVariables, astTargetVariables, uncaught>>
  /\ UNCHANGED extractVars
  /\ UNCHANGED cliVars
  /\ UNCHANGED visitVars

\* transformWithAst: transform() returns
AstSucceeds ==
  /\ pc = "ast"
  /\ LET r == AstResult(cssContent, config)
     IN /\ result' = [css |-> r.css, targetVariables |-> r.targetVariables]
        /\ astTargetVariables' = r.targetVariables
  /\ diagnostics' = diagnostics \cup {InfoAstSuccessful}
  /\ pc' = "returned"
  /\ UNCHANGED <<cssContent, config, method, transformedCss, targetVariables, ran, uncaught>>
  /\ UNCHANGED extractVars
  /\ UNCHANGED cliVars
  /\ UNCHANGED visitVars

\* transformWithAst: transform() raises, after the visitor has run on some
\* of the declarations, and the catch block calls transformWithRegex
AstRaises ==
  /\ pc = "ast"
  /\ \E seen \in SUBSET AstResult(cssContent, config).targetVariables :
       astTargetVariables' = seen
  /\ diagnostics' = diagnostics \cup {ErrorAst, WarnFallback}
  /\ ran' = ran \cup {"regex"}
  /\ transformedCss' = cssContent
  /\ targetVariables' = {}
  /\ pc' = "literals"
  /\ UNCHANGED <<cssContent, config, method, result, uncaught>>
  /\ UNCHANGED extractVars
  /\ UNCHANGED cliVars
  /\ UNCHANGED visitVars

\* a pattern could not be built in the pass that ended as r: the exception
\* leaves transformWithRegex (and the catch block of transformWithAst, when
\* the call came from there) and reaches the catch block of transformCss
Raise(r) ==
  /\ transformedCss' = r.css
  /\ targetVariables' = r.targetVariables
  /\ result' = OnError(cssContent).result
  /\ uncaught' = OnError(cssContent).uncaught
  /\ diagnostics' = diagnostics \cup {ErrorTransform}
  /\ pc' = "returned"

\* transformWithRegex, first loop
LiteralsPass ==
  /\ pc = "literals"
  /\ LET r == LiteralPass(Literals(FinalMapping(config)), 1, transformedCss, targetVariables)
     IN IF r.threw THEN Raise(r)
        ELSE /\ transformedCss' = r.css
             /\ targetVariables' = r.targetVariables
             /\ pc' = "usages"
             /\ UNCHANGED <<result, uncaught, diagnostics>>
  /\ UNCHANGED <<cssContent, config, method, astTargetVariables, ran>>
  /\ UNCHANGED extractVars
  /\ UNCHANGED cliVars
  /\ UNCHANGED visitVars

\* transformWithRegex, second loop
UsagesPass ==
  /\ pc = "usages"
  /\ LET r == UsagePass(Variables(FinalMapping(config)), 1, transformedCss, targetVariables)
     IN IF r.threw THEN Raise(r)
        ELSE /\ transformedCss' = r.css
             /\ targetVariables' = r.targetVariables
             /\ pc' = "declarations"
             /\ UNCHANGED <<result, uncaught, diagnostics>>
  /\ UNCHANGED <<cssContent, config, method, astTargetVariables, ran>>
  /\ UNCHANGED extractVars
  /\ UNCHANGED cliVars
  /\ UNCHANGED visitVars

\* transformWithRegex, third loop and the return; a call that came from the
\* catch block of transformWithAst returns through it
DeclarationsPass ==
  /\ pc = "declarations"
  /\ LET r == DeclarationPass(Variables(FinalMapping(config)), 1, transformedCss, targetVariables)
     IN IF r.threw THEN Raise(r)
        ELSE /\ transformedCss' = r.css
             /\ targetVariables' = r.targetVariables
             /\ result' = IF "ast" \in ran
                          THEN FallbackResult(r, astTargetVariables)
                          ELSE [css |-> r.css, targetVariables |-> r.targetVariables]
             /\ pc' = "returned"
             /\ UNCHANGED <<uncaught, diagnostics>>
  /\ UNCHANGED <<cssContent, config, method, astTargetVariables, ran>>
  /\ UNCHANGED extractVars
  /\ UNCHANGED cliVars
  /\ UNCHANGED visitVars

Next ==
  \/ Call
  \/ AstSucceeds
  \/ AstRaises
  \/ LiteralsPass
  \/ UsagesPass
  \/ DeclarationsPass

Spec == Init /\ [][Next]_vars

\* ------------------------------------------------------------------------
\* Properties of transformCss
\* ------------------------------------------------------------------------

Returned == pc = "returned"

\* what transformCss returns for method "regex": the result of the three
\* passes, or the input with an empty set when a pattern could not be built
RegexCallResult(css, cfg) ==
  LET r == RegexResult(css, cfg)
  IN IF r.threw THEN [css |-> css, targetVariables |-> {}]
     ELSE [css |-> r.css, targetVariables |-> r.targetVariables]

\* C1: no exception leaves transformCss, and a call in which the strategy
\* (and, for ast, its regex fallback) raised returns the input text with an
\* empty targetVariables
C1_NeverRaisesPastEngine ==
  /\ uncaught = FALSE
  /\ (Returned /\ ErrorTransform \in diagnostics)
       => result = [css |-> cssContent, targetVariables |-> {}]

\* C1 witness: the ast strategy raised, the regex fallback had recorded a
\* name when a key with "(" made its pattern raise, and the call returned
C1_Witness ==
  /\ Returned
  /\ method = "ast"
  /\ {ErrorAst, ErrorTransform} \subseteq diagnostics
  /\ targetVariables # {}
  /\ KeyParen \in Keys(FinalMapping(config))

\* C2: every name of the returned targetVariables occurs in the returned
\* text as var(name)
C2_TargetsOccurWrapped ==
  Returned => \A n \in result.targetVariables : Includes(result.css, VarCall(n))

\* C3: when transform() raised inside transformWithAst, the call returns
\* what a regex call on the same input and mapping returns, whatever the
\* visitor had recorded
C3_FallbackIsRegexResult ==
  (Returned /\ WarnFallback \in diagnostics)
    => result = RegexCallResult(cssContent, config)

\* C3 witness: the visitor had recorded a name before transform() raised,
\* the fallback rewrote the text, and the name is not in the result
C3_Witness ==
  /\ Returned
  /\ WarnFallback \in diagnostics
  /\ ErrorTransform \notin diagnostics
  /\ result.css # cssContent
  /\ \E n \in astTargetVariables : n \notin result.targetVariables

\* C4: an empty or whitespace-only input returns "" and an empty set, and
\* no strategy is entered
C4_BlankInputShortCircuits ==
  (Returned /\ Trim(cssContent) = <<>>)
    => /\ result = [css |-> <<>>, targetVariables |-> {}]
       /\ ran = {}
       /\ diagnostics = {}

\* C4 witness: a whitespace-only input has returned
C4_Witness == Returned /\ Trim(cssContent) = <<>> /\ cssContent # <<>>

MergedValue(cfg, key) ==
  IF HasKey(cfg.overrides, key) THEN Lookup(cfg.overrides, key)
  ELSE Lookup(cfg.defaultMapping, key)

\* C6: the mapping both strategies use holds exactly the keys of the two
\* sources, each with the overrides value when overrides has the key and
\* the default value otherwise; and a call returns only names of it
C6_OverridesWin ==
  LET m == FinalMapping(config) IN
  /\ Keys(m) = Keys(config.defaultMapping) \cup Keys(config.overrides)
  /\ DistinctKeys(m)
  /\ \A key \in Keys(m) : Lookup(m, key) = MergedValue(config, key)
  /\ Returned => \A n \in result.targetVariables :
                   \E key \in Keys(m) : n = MergedValue(config, key)

\* C6 witness: a key of both sources, with different values, decided the
\* returned text
C6_Witness ==
  /\ Returned
  /\ HasKey(config.defaultMapping, KeyA)
  /\ HasKey(config.overrides, KeyA)
  /\ Lookup(config.defaultMapping, KeyA) # Lookup(config.overrides, KeyA)
  /\ Lookup(config.overrides, KeyA) \in result.targetVariables

\* no key of the mapping is the replacement of another key
NoKeyIsAReplacement(m) ==
  \A j, k \in 1..Len(m) : j # k => m[j][1] # m[k][2]

\* C7: for a mapping in which no key is the replacement of another key,
\* rewriting the returned text again with the same mapping and strategy
\* gives the same text
C7_Idempotent ==
  (Returned /\ NoKeyIsAReplacement(FinalMapping(config)))
    => /\ (ran = {"regex"} /\ ErrorTransform \notin diagnostics)
            => RegexCallResult(result.css, config).css = result.css
       /\ (ran = {"ast"})
            => AstResult(result.css, config).css = result.css

\* the texts between the delimiters ";", "{" and "}" of a stylesheet, in order
RECURSIVE Segments(_, _)
Segments(text, i) ==
  IF i > Len(text) THEN <<>>
  ELSE LET d == NextDelimiter(text, i)
       IN <<SubSeq(text, i, d - 1)>> \o Segments(text, d + 1)

\* the text before the first ":" of a declaration, without outer spaces
DeclaredName(seg) == Trim(SubSeq(seg, 1, FirstColon(seg, 1) - 1))

\* seg declares a custom property whose name is a key of the mapping
DeclaresMappedVariable(seg, m) ==
  /\ FirstColon(seg, 1) > 0
  /\ StartsWith(DeclaredName(seg), Dashes)
  /\ HasKey(m, DeclaredName(seg))

Occurrences(text, p) ==
  Cardinality({i \in 1..(Len(text) - Len(p) + 1) : SubSeq(text, i, i + Len(p) - 1) = p})

\* the terminators of a text, in order
Terminators(text) == SelectSeq(text, LAMBDA c : c \in {";", "}"})

\* the text the passes put for a mapped value: var(v) for a variable name
\* v, the text v otherwise
Substitute(v) == IF StartsWith(v, Dashes) THEN VarCall(v) ELSE v

\* C17: a turn of the declaration pass, on the text the usage pass left,
\* keeps every terminator and every !important of the text, and a text it
\* changed holds the substitute of the entry's value
C17_DeclarationPassKeepsSuffix ==
  pc = "declarations"
    => \A k \in 1..Len(Variables(FinalMapping(config))) :
         LET entry == Variables(FinalMapping(config))[k]
             r == DeclarationEntry(transformedCss, {}, entry)
         IN ~r.threw
              => /\ Terminators(r.css) = Terminators(transformedCss)
                 /\ Occurrences(r.css, Important) >= Occurrences(transformedCss, Important)
                 /\ r.css # transformedCss => Includes(r.css, Substitute(entry[2]))

\* the text with every span replaced: spanEnd[i] is the last position of the
\* span that begins at i (0: none begins there); spans are taken from the
\* left, and one that begins inside a span already taken is passed over
RECURSIVE Spliced(_, _, _, _)
Spliced(text, spanEnd, replacement, i) ==
  IF i > Len(text) THEN <<>>
  ELSE IF spanEnd[i] > 0
  THEN replacement \o Spliced(text, spanEnd, replacement, spanEnd[i] + 1)
  ELSE <<text[i]>> \o Spliced(text, spanEnd, replacement, i + 1)

\* the matches of the literal pattern of a key in a text
LiteralSpans(text, key) ==
  LET atoms == PatternAtoms(EscapeForRegex(key), 1)
  IN [i \in 1..Len(text) |->
        IF LiteralMatchAt(atoms, text, i) THEN i + Len(atoms) - 1 ELSE 0]

Matched(spanEnd) == \E i \in DOMAIN spanEnd : spanEnd[i] > 0

\* the names a turn records: the value, when it is a variable name and a
\* match occurred
Recorded(spanEnd, v) ==
  IF StartsWith(v, Dashes) /\ Matched(spanEnd) THEN {v} ELSE {}

\* C18: a turn of the literal pass replaces every match of the key's pattern
\* by var(v) when the value v is a variable name and by v otherwise, and
\* records v exactly when v is a variable name and a match occurred; the
\* pass of a mapping with one literal entry leaves that text and that set
C18_LiteralPassReplacesEveryMatch ==
  /\ pc = "literals"
       => \A k \in 1..Len(Literals(FinalMapping(config))) :
            LET entry == Literals(FinalMapping(config))[k]
                r == LiteralEntry(transformedCss, {}, entry)
                spans == LiteralSpans(transformedCss, entry[1])
            IN ~r.threw
                 => /\ r.css = Spliced(transformedCss, spans, Substitute(entry[2]), 1)
                    /\ r.targetVariables = Recorded(spans, entry[2])
  /\ pc = "usages" /\ Len(Literals(FinalMapping(config))) = 1
       => LET entry == Literals(FinalMapping(config))[1]
              spans == LiteralSpans(cssContent, entry[1])
          IN /\ transformedCss = Spliced(cssContent, spans, Substitute(entry[2]), 1)
             /\ targetVariables = Recorded(spans, entry[2])

\* two texts agree up to letter case
SameLetters(s, t) ==
  Len(s) = Len(t) /\ \A j \in 1..Len(s) : Lower(s[j]) = Lower(t[j])

Blank(text, from, to) == \A j \in from..to : IsSpace(text[j])

\* positions i..j of the text hold a usage of the variable `key`: var, an
\* opening parenthesis, the name in any letter case and a closing
\* parenthesis, with nothing but white space between them
IsUsage(text, key, i, j) ==
  \E open \in (i + 3)..j : \E name \in (open + 1)..j :
    /\ SameLetters(SubSeq(text, i, i + 2), <<"v", "a", "r">>)
    /\ Blank(text, i + 3, open - 1)
    /\ text[open] = "("
    /\ Blank(text, open + 1, name - 1)
    /\ name + Len(key) - 1 < j
    /\ SameLetters(SubSeq(text, name, name + Len(key) - 1), key)
    /\ Blank(text, name + Len(key), j - 1)
    /\ text[j] = ")"

\* the usages of a variable in a text
UsageSpans(text, key) ==
  [i \in 1..Len(text) |->
     IF \E j \in i..Len(text) : IsUsage(text, key, i, j)
     THEN CHOOSE j \in i..Len(text) : IsUsage(text, key, i, j)
     ELSE 0]

\* C19: a turn of the usage pass replaces every usage var( k ) of the
\* entry's key k, in any letter case and with any white space inside, by
\* var(v) when the value v is a variable name and by v otherwise, records v
\* exactly in the first case, and leaves the rest of the text, the usages
\* of longer names among it, as it was; the pass of a mapping with one
\* variable entry leaves that text and adds that name
C19_UsagePassReplacesEveryUsage ==
  /\ pc = "usages"
       => \A k \in 1..Len(Variables(FinalMapping(config))) :
            LET entry == Variables(FinalMapping(config))[k]
                r == UsageEntry(transformedCss, {}, entry)
                spans == UsageSpans(transformedCss, entry[1])
            IN ~r.threw
                 => /\ r.css = Spliced(transformedCss, spans, Substitute(entry[2]), 1)
                    /\ r.targetVariables = Recorded(spans, entry[2])
  /\ pc = "declarations" /\ Len(Variables(FinalMapping(config))) = 1
       => LET entry == Variables(FinalMapping(config))[1]
              before == LiteralPass(Literals(FinalMapping(config)), 1, cssContent, {})
              spans == UsageSpans(before.css, entry[1])
          IN /\ transformedCss = Spliced(before.css, spans, Substitute(entry[2]), 1)
             /\ targetVariables = before.targetVariables \cup Recorded(spans, entry[2])

\* the places where the text of a key stands in a text, in any letter case,
\* with no letter or digit right before it or right after it
KeyOccurrences(text, key) ==
  { i \in 1..(Len(text) - Len(key) + 1) :
      /\ SameLetters(SubSeq(text, i, i + Len(key) - 1), key)
      /\ i = 1 \/ ~IsAlnum(text[i - 1])
      /\ i + Len(key) > Len(text) \/ ~IsAlnum(text[i + Len(key)]) }

\* C22: the pattern of every literal key can be built, and it matches the
\* text of the key and nothing else: its matches are the places where the
\* key stands with no letter or digit next to it, each as long as the key
C22_LiteralKeysMatchAsText ==
  pc = "literals"
    => \A k \in 1..Len(Literals(FinalMapping(config))) :
         LET key == Literals(FinalMapping(config))[k][1]
             spans == LiteralSpans(transformedCss, key)
         IN /\ RegExpCompiles(EscapeForRegex(key))
            /\ {i \in DOMAIN spans : spans[i] > 0} = KeyOccurrences(transformedCss, key)
            /\ \A i \in DOMAIN spans : spans[i] > 0 => spans[i] = i + Len(key) - 1

\* the places of a text where a declaration of the property key begins: the
\* name, not inside a longer name, then a colon, then a value up to a ";" or
\* a "}"
TerminatedDeclarations(text, key) ==
  { i \in 1..Len(text) :
      /\ i + Len(key) - 1 <= Len(text)
      /\ SubSeq(text, i, i + Len(key) - 1) = key
      /\ i = 1 \/ ~IsWordOrDash(text[i - 1])
      /\ LET colon == SkipSpace(text, i + Len(key))
         IN /\ colon <= Len(text)
            /\ text[colon] = ":"
            /\ NextTerminator(text, colon + 1) <= Len(text) }

\* the value of the declaration that begins at i
DeclaredValue(text, key, i) ==
  LET colon == SkipSpace(text, i + Len(key))
  IN Trim(SubSeq(text, colon + 1, NextTerminator(text, colon + 1) - 1))

\* a regex rewrite ran to its end
RegexCompleted ==
  /\ pc = "returned"
  /\ "regex" \in ran
  /\ ErrorTransform \notin diagnostics

\* a step of the rewrite: the usage pass begins only from the text the
\* literal pass left after all its entries, the declaration pass only from
\* the text the usage pass left after all its entries, and no pass runs twice
PassesInOrder ==
  /\ pc' = "usages"
       => /\ pc = "literals"
          /\ transformedCss'
               = LiteralPass(Literals(FinalMapping(config)), 1, transformedCss, {}).css
  /\ pc' = "declarations"
       => /\ pc = "usages"
          /\ transformedCss'
               = UsagePass(Variables(FinalMapping(config)), 1, transformedCss, {}).css
  /\ pc = "usages" => pc' \in {"declarations", "returned"}
  /\ pc = "declarations" => pc' = "returned"
  /\ pc = "returned" => pc' = "returned"

\* every declaration of a mapped variable key is still there at the end and
\* holds the substitute of the key's value
DeclarationsHoldMappedValue ==
  RegexCompleted
    => \A k \in 1..Len(Variables(FinalMapping(config))) :
         LET entry == Variables(FinalMapping(config))[k]
             before == TerminatedDeclarations(cssContent, entry[1])
             after == TerminatedDeclarations(result.css, entry[1])
         IN /\ Cardinality(after) = Cardinality(before)
            /\ \A i \in after :
                 DeclaredValue(result.css, entry[1], i) = Substitute(entry[2])

Reversed(m) == [k \in 1..Len(m) |-> m[Len(m) + 1 - k]]

\* C28: a regex rewrite gives the same text and the same targetVariables
\* when the entries of the mapping are listed in another order, also when
\* the replacement of one entry is the key of another
C28_EntryOrderIrrelevant ==
  pc = "returned" /\ ran = {"regex"}
    => LET other == [config EXCEPT !.defaultMapping = Reversed(@)]
           r == RegexCallResult(cssContent, other)
       IN /\ r.css = result.css
          /\ r.targetVariables = result.targetVariables

\* ------------------------------------------------------------------------
\* extractBootstrapVariables: the tables and the resolution of a property
\* ------------------------------------------------------------------------

\* const MAX_RESOLUTION_DEPTH = 10
MAX_RESOLUTION_DEPTH == 10

NameValueOf == <<"v", "a", "l", "u", "e", "O", "f">>

NameToString == <<"t", "o", "S", "t", "r", "i", "n", "g">>

NameConstructor == <<"c", "o", "n", "s", "t", "r", "u", "c", "t", "o", "r">>

\* declarations, aliases and valueToVarNames are plain objects ({}): a read
\* of one of these names finds the method every object inherits, although
\* no assignment set it
InheritedNames == {NameValueOf, NameToString, NameConstructor}

\* the loop over matches: declarations[varName] = { originalValue, ... },
\* with originalValue = varMatch[3].trim()
RECURSIVE ScanMatches(_, _)
ScanMatches(ms, decls) ==
  IF ms = <<>> THEN decls
  ELSE LET varName == Head(ms)[1]
           originalValue == Trim(Head(ms)[2])
       IN ScanMatches(Tail(ms), SetEntry(decls, <<varName, originalValue>>))

\* currentValue.substring(4, currentValue.length - 1).trim(); substring
\* swaps its arguments when the end lies before the start
ReferencedVarName(currentValue) ==
  LET n == Len(currentValue)
  IN IF n - 1 >= 4 THEN Trim(SubSeq(currentValue, 5, n - 1))
     ELSE Trim(SubSeq(currentValue, n, 4))

\* console.warn(`Cycle detected resolving ${varName} involving ...`)
CycleWarning(varName, referenced, value) ==
  [kind |-> "cycle", varName |-> varName, involving |-> referenced, value |-> value]

\* console.warn(`Max resolution depth (10) reached for ${varName}, ...`)
MaxDepthWarning(varName, value) ==
  [kind |-> "max-depth", varName |-> varName, involving |-> <<>>, value |-> value]

\* a cap that is reached by the first substitution
DepthReachedAtOnce(d) == d >= 1

\* if (depth >= MAX_RESOLUTION_DEPTH)
DepthReached(d) == d >= MAX_RESOLUTION_DEPTH

\* a cap that stops without the warning
MaxDepthSilent(varName, value) == {}

\* the warning made when the value after the last step is still a var()
MaxDepthWarnings(varName, value) ==
  IF StartsWith(value, VarOpen) THEN {MaxDepthWarning(varName, value)} ELSE {}

\* a path that is never found to come back
RevisitsNever(visitedInPath, referenced) == FALSE

\* if (visitedInPath.has(referencedVarNameCheck))
Revisits(visitedInPath, referenced) == referenced \in visitedInPath

\* the loop has ended with currentValue = value
Resolved(value, d, warned) ==
  [threw |-> FALSE, value |-> value, depth |-> d, warnings |-> warned]

\* currentValue took the originalValue of an inherited method, which is
\* undefined, and the next currentValue.startsWith raised a TypeError
ResolveRaised(d) ==
  [threw |-> TRUE, value |-> <<>>, depth |-> d, warnings |-> {}]

\* while (currentValue.startsWith("var(")) { ... } for the property varName
RECURSIVE ResolveLoop(_, _, _, _, _)
ResolveLoop(decls, varName, currentValue, visitedInPath, d) ==
  IF ~StartsWith(currentValue, VarOpen) THEN Resolved(currentValue, d, {})
  ELSE LET referenced == ReferencedVarName(currentValue) IN
       IF Revisits(visitedInPath, referenced)
       THEN Resolved(currentValue, d, {CycleWarning(varName, referenced, currentValue)})
       ELSE IF HasKey(decls, referenced)
       THEN LET next == Lookup(decls, referenced) IN
            IF DepthReached(d + 1)
            THEN Resolved(next, d + 1, MaxDepthWarnings(varName, next))
            ELSE ResolveLoop(decls, varName, next, visitedInPath \cup {referenced}, d + 1)
       ELSE IF referenced \in InheritedNames
       THEN ResolveRaised(d + 1)
       ELSE Resolved(currentValue, d, {})

\* the loop of explicit aliases: every property declared as a var()
ExplicitAliases(decls) == SelectSeq(decls, LAMBDA e : StartsWith(e[2], VarOpen))

\* the loop that fills valueToVarNames: the properties of each resolved
\* value that is neither empty nor a var(), in declaration order
RECURSIVE GroupByValue(_, _)
GroupByValue(resolved, groups) ==
  IF resolved = <<>> THEN groups
  ELSE LET varName == Head(resolved)[1]
           value == Head(resolved)[2]
           sofar == IF HasKey(groups, value) THEN Lookup(groups, value) ELSE <<>>
       IN IF value # <<>> /\ ~StartsWith(value, VarOpen)
          THEN GroupByValue(Tail(resolved), SetEntry(groups, <<value, Append(sofar, varName)>>))
          ELSE GroupByValue(Tail(resolved), groups)

\* valueToVarNames[value] of an inherited name is a method, so no array is
\* made for it and the call of push raises a TypeError
GroupingRaises(resolved) ==
  \E k \in 1..Len(resolved) : resolved[k][2] \in InheritedNames

\* the order localeCompare gives the characters of a property name
Collation ==
  <<"-", "0", "1", "2", "3", "4", "5", "6", "7", "8", "9",
    "a", "b", "c", "d", "e", "f", "g", "h", "i", "j", "k", "l", "m",
    "n", "o", "p", "q", "r", "s", "t", "u", "v", "w", "x", "y", "z">>

CollationRank(c) == CHOOSE i \in 1..Len(Collation) : Collation[i] = c

\* a.localeCompare(b) < 0
RECURSIVE LocaleBefore(_, _)
LocaleBefore(a, b) ==
  IF a = <<>> THEN b # <<>>
  ELSE IF b = <<>> THEN FALSE
  ELSE IF Head(a) = Head(b) THEN LocaleBefore(Tail(a), Tail(b))
  ELSE CollationRank(Head(a)) < CollationRank(Head(b))

\* a comparator that never puts a name before another one
ComesBeforeNever(a, b) == FALSE

\* the comparator of candidates.sort: shorter names first, then localeCompare
ComesBefore(a, b) ==
  IF Len(a) # Len(b) THEN Len(a) < Len(b) ELSE LocaleBefore(a, b)

RECURSIVE InsertSorted(_, _)
InsertSorted(sorted, name) ==
  IF sorted = <<>> THEN <<name>>
  ELSE IF ComesBefore(name, Head(sorted)) THEN <<name>> \o sorted
  ELSE <<Head(sorted)>> \o InsertSorted(Tail(sorted), name)

\* candidates.sort(...)
RECURSIVE SortCandidates(_, _)
SortCandidates(candidates, sorted) ==
  IF candidates = <<>> THEN sorted
  ELSE SortCandidates(Tail(candidates), InsertSorted(sorted, Head(candidates)))

\* the loop over candidates[1..] without the test for an alias already set
RECURSIVE AliasCandidatesOverwriting(_, _, _)
AliasCandidatesOverwriting(others, canonicalVar, al) ==
  IF others = <<>> THEN al
  ELSE AliasCandidatesOverwriting(Tail(others), canonicalVar,
         SetEntry(al, <<Head(others), VarCall(canonicalVar)>>))

\* the loop over candidates[1..]: aliases[aliasVar] = `var(${canonicalVar})`
\* unless the property has an alias already
RECURSIVE AliasCandidates(_, _, _)
AliasCandidates(others, canonicalVar, al) ==
  IF others = <<>> THEN al
  ELSE LET aliasVar == Head(others)
       IN AliasCandidates(Tail(others), canonicalVar,
            IF ~HasKey(al, aliasVar) /\ aliasVar # canonicalVar
            THEN Append(al, <<aliasVar, VarCall(canonicalVar)>>)
            ELSE al)

\* the loop over valueToVarNames
RECURSIVE DerivedAliases(_, _)
DerivedAliases(groups, al) ==
  IF groups = <<>> THEN al
  ELSE LET candidates == SortCandidates(Head(groups)[2], <<>>)
       IN DerivedAliases(Tail(groups),
            IF Len(candidates) > 1
            THEN AliasCandidates(Tail(candidates), Head(candidates), al)
            ELSE al)

\* a final table of the literal values only
FinalDefaultMappingLiteralsOnly(decls, resolved) ==
  SelectSeq(resolved, LAMBDA e : ~StartsWith(e[2], VarOpen))

\* the loop that fills finalDefaultMapping
FinalDefaultMapping(decls, resolved) ==
  [k \in 1..Len(decls) |-> <<decls[k][1], Lookup(resolved, decls[k][1])>>]

\* the loop over declarations, from the k-th property on: the resolved
\* values, or the TypeError of a property's loop
RECURSIVE ResolveAll(_, _, _)
ResolveAll(decls, k, resolved) ==
  IF k > Len(decls) THEN [threw |-> FALSE, resolvedValues |-> resolved]
  ELSE LET r == ResolveLoop(decls, decls[k][1], decls[k][2], {}, 0)
       IN IF r.threw THEN [threw |-> TRUE, resolvedValues |-> resolved]
          ELSE ResolveAll(decls, k + 1, Append(resolved, <<decls[k][1], r.value>>))

\* extractBootstrapVariables on the matches ms: what it returns, or that it
\* raised
ExtractionOf(ms) ==
  LET decls == ScanMatches(ms, <<>>)
      r == ResolveAll(decls, 1, <<>>)
  IN IF r.threw \/ GroupingRaises(r.resolvedValues)
     THEN [threw |-> TRUE, resolvedValues |-> <<>>, aliases |-> <<>>]
     ELSE [threw |-> FALSE,
           resolvedValues |-> FinalDefaultMapping(decls, r.resolvedValues),
           aliases |-> DerivedAliases(GroupByValue(r.resolvedValues, <<>>),
                                      ExplicitAliases(decls))]

\* ------------------------------------------------------------------------
\* The inputs of extractBootstrapVariables
\* ------------------------------------------------------------------------

\* the most declarations a small input holds
MaxDecls == 3

\* the most declarations a chain or a cycle holds
MaxChain == 12

PropA == <<"-", "-", "a">>

PropB == <<"-", "-", "b">>

PropCc == <<"-", "-", "c", "c">>

PropZ == <<"-", "-", "z">>

\* the value texts the scan captures
RawHex == <<" ", "#", "f">>

RawX == <<"x">>

RawVarA == VarCall(PropA)

RawVarBSpaced == <<" ">> \o VarOpen \o <<" ">> \o PropB \o <<" ", ")">>

RawVarInherited == VarCall(NameValueOf)

\* the value text of an empty declaration such as --btn-font-family: ;
RawBlank == <<" ">>

SmallMatches ==
  {PropA, PropB, PropCc}
    \X {RawHex, RawX, RawBlank, RawVarA, RawVarBSpaced, RawVarInherited}

SmallMatchLists == UNION {[1..n -> SmallMatches] : n \in 0..MaxDecls}

ChainLetters ==
  <<"a", "b", "c", "d", "e", "f", "g", "h", "i", "j", "k", "l", "m",
    "n", "o", "p", "q", "r", "s", "t", "u", "v", "w", "x", "y", "z">>

ChainName(i) == <<"-", "-", "k", ChainLetters[i]>>

\* n declarations, each a var() of the next one, the last one declared as last
ChainMatches(n, last) ==
  [i \in 1..n |-> <<ChainName(i), IF i < n THEN VarCall(ChainName(i + 1)) ELSE last>>]

\* the ends of a chain: a literal, a name no declaration has, an inherited
\* name as a reference and as a literal
ChainEnds == {RawHex, VarCall(PropZ), VarCall(NameValueOf), NameToString}

\* n declarations that form a cycle
CycleMatches(n) == ChainMatches(n, VarCall(ChainName(1)))

ChainMatchLists ==
  {ChainMatches(n, last) : n \in 1..MaxChain, last \in ChainEnds}
    \cup {CycleMatches(n) : n \in 1..MaxChain}
    \cup {CycleMatches(n) \o <<<<PropA, VarCall(NameConstructor)>>>> : n \in 1..2}

MatchLists == SmallMatchLists \cup ChainMatchLists

\* ------------------------------------------------------------------------
\* extractBootstrapVariables as a state machine
\* ------------------------------------------------------------------------

\* no call of transformCss is under way
TransformIdle ==
  /\ cssContent = <<>>
  /\ config = [defaultMapping |-> <<>>, overrides |-> <<>>]
  /\ method = "ast"
  /\ pc = "idle"
  /\ transformedCss = <<>>
  /\ targetVariables = {}
  /\ astTargetVariables = {}
  /\ ran = {}
  /\ diagnostics = {}
  /\ result = NoResult
  /\ uncaught = FALSE

InitExtract ==
  /\ matches \in MatchLists
  /\ declarations = <<>>
  /\ resolvedValues = <<>>
  /\ depth = <<>>
  /\ warnings = {}
  /\ aliases = <<>>
  /\ epc = "scan"
  /\ extraction = NoExtraction
  /\ TransformIdle
  /\ CliIdle
  /\ VisitIdle

\* step 1: the declarations of the input, later ones replacing earlier ones
Scan ==
  /\ epc = "scan"
  /\ declarations' = ScanMatches(matches, <<>>)
  /\ epc' = "resolve"
  /\ UNCHANGED <<matches, resolvedValues, depth, warnings, aliases, extraction>>
  /\ UNCHANGED transformVars
  /\ UNCHANGED cliVars
  /\ UNCHANGED visitVars

\* step 2, one turn of the loop over declarations: the next property is
\* resolved, or the TypeError of its loop leaves the function
ResolveVariable ==
  /\ epc = "resolve"
  /\ Len(depth) < Len(declarations)
  /\ LET varName == declarations[Len(depth) + 1][1]
         r == ResolveLoop(declarations, varName, declarations[Len(depth) + 1][2], {}, 0)
     IN /\ depth' = Append(depth, <<varName, r.depth>>)
        /\ IF r.threw
           THEN /\ epc' = "thrown"
                /\ UNCHANGED <<resolvedValues, warnings>>
           ELSE /\ resolvedValues' = Append(resolvedValues, <<varName, r.value>>)
                /\ warnings' = warnings \cup r.warnings
                /\ UNCHANGED epc
  /\ UNCHANGED <<matches, declarations, aliases, extraction>>
  /\ UNCHANGED transformVars
  /\ UNCHANGED cliVars
  /\ UNCHANGED visitVars

\* step 3: the explicit aliases, then the aliases of shared resolved values
GenerateAliases ==
  /\ epc = "resolve"
  /\ Len(depth) = Len(declarations)
  /\ IF GroupingRaises(resolvedValues)
     THEN /\ aliases' = ExplicitAliases(declarations)
          /\ epc' = "thrown"
     ELSE /\ aliases' = DerivedAliases(GroupByValue(resolvedValues, <<>>),
                                       ExplicitAliases(declarations))
          /\ epc' = "return"
  /\ UNCHANGED <<matches, declarations, resolvedValues, depth, warnings, extraction>>
  /\ UNCHANGED transformVars
  /\ UNCHANGED cliVars
  /\ UNCHANGED visitVars

\* return { resolvedValues: finalDefaultMapping, aliases }
ReturnTables ==
  /\ epc = "return"
  /\ extraction' = [resolvedValues |-> FinalDefaultMapping(declarations, resolvedValues),
                    aliases |-> aliases]
  /\ epc' = "returned"
  /\ UNCHANGED <<matches, declarations, resolvedValues, depth, warnings, aliases>>
  /\ UNCHANGED transformVars
  /\ UNCHANGED cliVars
  /\ UNCHANGED visitVars

NextExtract ==
  \/ Scan
  \/ ResolveVariable
  \/ GenerateAliases
  \/ ReturnTables

SpecExtract == InitExtract /\ [][NextExtract]_vars

\* ------------------------------------------------------------------------
\* Properties of extractBootstrapVariables
\* ------------------------------------------------------------------------

Extracted == epc = "returned"

\* where the references that start at a declared value end: at a literal, at
\* a name no declaration has, or nowhere (more references than there are
\* declarations: a name repeats); hops counts the declared names passed
RECURSIVE ChainEnd(_, _, _)
ChainEnd(decls, value, hops) ==
  IF ~StartsWith(value, VarOpen)
  THEN [kind |-> "literal", hops |-> hops, value |-> value]
  ELSE IF ~HasKey(decls, ReferencedVarName(value))
  THEN [kind |-> "undeclared", hops |-> hops, value |-> value]
  ELSE IF hops >= Len(decls)
  THEN [kind |-> "cycle", hops |-> hops, value |-> value]
  ELSE ChainEnd(decls, Lookup(decls, ReferencedVarName(value)), hops + 1)

Acyclic(decls) ==
  \A k \in 1..Len(decls) : ChainEnd(decls, decls[k][2], 0).kind # "cycle"

WithinDepthCap(decls) ==
  \A k \in 1..Len(decls) : ChainEnd(decls, decls[k][2], 0).hops <= MAX_RESOLUTION_DEPTH

\* C8: in the table returned for declarations whose references are acyclic
\* and whose chains pass at most ten declared names, a resolved value starts
\* with var( only when the property's chain ends at a name no declaration has
C8_AcyclicResolvesToLiterals ==
  (Extracted /\ Acyclic(declarations) /\ WithinDepthCap(declarations))
    => \A k \in 1..Len(extraction.resolvedValues) :
         StartsWith(extraction.resolvedValues[k][2], VarOpen)
           => ChainEnd(declarations,
                       Lookup(declarations, extraction.resolvedValues[k][1]), 0).kind
                = "undeclared"

\* C8 witness: an acyclic table within the cap was returned in which a
\* property that reaches its literal through two or more references has
\* that literal as its resolved value
C8_Witness ==
  /\ Extracted
  /\ Acyclic(declarations)
  /\ WithinDepthCap(declarations)
  /\ \E k \in 1..Len(declarations) :
       LET c == ChainEnd(declarations, declarations[k][2], 0)
       IN /\ c.kind = "literal"
          /\ c.hops >= 2
          /\ Lookup(extraction.resolvedValues, declarations[k][1]) = c.value

\* the name reached from a property after n references (<<>> when the
\* references leave the table before)
RECURSIVE ReachedAfter(_, _, _)
ReachedAfter(decls, name, n) ==
  IF n = 0 THEN name
  ELSE IF HasKey(decls, name) /\ StartsWith(Lookup(decls, name), VarOpen)
  THEN ReachedAfter(decls, ReferencedVarName(Lookup(decls, name)), n - 1)
  ELSE <<>>

\* the numbers of references after which a property is reached again
CycleLengths(decls, name) ==
  {n \in 1..Len(decls) : ReachedAfter(decls, name, n) = name}

\* the resolution of the k-th property kept the property's own declared
\* text and warned about the property
KeptOwnText(k) ==
  /\ resolvedValues[k][2] = declarations[k][2]
  /\ \E w \in warnings : w.varName = declarations[k][1]

\* the returned table holds every scanned property, the k-th one with its
\* own declared text
ReturnedOwnText(k) ==
  /\ Keys(extraction.resolvedValues) = Keys(declarations)
  /\ Lookup(extraction.resolvedValues, declarations[k][1]) = declarations[k][2]

RECURSIVE ValueAfter(_, _, _)
ValueAfter(decls, value, n) ==
  IF n = 0 THEN value
  ELSE ValueAfter(decls, Lookup(decls, ReferencedVarName(value)), n - 1)

\* C10: no property is resolved with more than ten substitutions; a
\* property whose chain of ten references ends in a literal resolves to the
\* literal; and a value that is still a var() after the tenth substitution
\* is kept as the resolved value, with the max-depth warning
C10_AtMostTenSubstitutions ==
  /\ \A k \in 1..Len(depth) : depth[k][2] <= 10
  /\ \A k \in 1..Len(resolvedValues) :
       LET c == ChainEnd(declarations, declarations[k][2], 0)
           resolved == resolvedValues[k][2]
       IN /\ (c.kind = "literal" /\ c.hops = 10) => resolved = c.value
          /\ (depth[k][2] = 10 /\ StartsWith(resolved, VarOpen))
               => /\ resolved = ValueAfter(declarations, declarations[k][2], 10)
                  /\ MaxDepthWarning(declarations[k][1], resolved) \in warnings

\* C10 witness: a table was returned in which one property took ten
\* substitutions to its literal and another one was still a var() after its
\* tenth substitution and was warned about
C10_Witness ==
  /\ Extracted
  /\ \E j, k \in 1..Len(resolvedValues) :
       /\ depth[j][2] = 10
       /\ ~StartsWith(resolvedValues[j][2], VarOpen)
       /\ depth[k][2] = 10
       /\ StartsWith(resolvedValues[k][2], VarOpen)
       /\ MaxDepthWarning(declarations[k][1], resolvedValues[k][2]) \in warnings

\* C11: when the references of a property reach, within the ten
\* substitutions the loop makes, a var() whose name no declaration has, the
\* property is resolved to that var() text and no warning is made about it
C11_UndeclaredStopsQuietly ==
  \A k \in 1..Len(depth) :
    LET c == ChainEnd(declarations, declarations[k][2], 0)
    IN (c.kind = "undeclared" /\ c.hops <= MAX_RESOLUTION_DEPTH)
         => /\ k <= Len(resolvedValues)
            /\ resolvedValues[k][2] = c.value
            /\ \A w \in warnings : w.varName # declarations[k][1]

\* the code points of the characters of a property name, in ascending order
NameCharacters ==
  <<"-", "0", "1", "2", "3", "4", "5", "6", "7", "8", "9",
    "a", "b", "c", "d", "e", "f", "g", "h", "i", "j", "k", "l", "m",
    "n", "o", "p", "q", "r", "s", "t", "u", "v", "w", "x", "y", "z">>

\* a is before b in ascending lexical order
RECURSIVE LexicallyBefore(_, _)
LexicallyBefore(a, b) ==
  IF a = <<>> THEN b # <<>>
  ELSE IF b = <<>> THEN FALSE
  ELSE IF Head(a) = Head(b) THEN LexicallyBefore(Tail(a), Tail(b))
  ELSE \E i, j \in 1..Len(NameCharacters) :
         i < j /\ NameCharacters[i] = Head(a) /\ NameCharacters[j] = Head(b)

\* the properties a table gives the value
PropertiesWith(table, value) ==
  {table[i][1] : i \in {j \in 1..Len(table) : table[j][2] = value}}

\* the member of a set of names with the shortest name, ties broken by
\* ascending lexical order
ShortestFirst(names) ==
  CHOOSE m \in names :
    \A o \in names \ {m} :
      Len(m) < Len(o) \/ (Len(m) = Len(o) /\ LexicallyBefore(m, o))

\* C12: in the returned alias table every property declared as a var() has
\* exactly its declared text, whatever aliases the shared resolved values
\* give
C12_ExplicitAliasesKept ==
  Extracted
    => /\ DistinctKeys(extraction.aliases)
       /\ \A k \in 1..Len(declarations) :
            StartsWith(declarations[k][2], VarOpen)
              => /\ HasKey(extraction.aliases, declarations[k][1])
                 /\ Lookup(extraction.aliases, declarations[k][1]) = declarations[k][2]

\* C12 witness: a property declared as a var() resolved to a literal that a
\* shorter-named property has too, and its alias is its declared text, not
\* the var() of the canonical property
C12_Witness ==
  /\ Extracted
  /\ \E k \in 1..Len(declarations) :
       LET name == declarations[k][1]
           value == Lookup(extraction.resolvedValues, name)
           canonical == ShortestFirst(PropertiesWith(extraction.resolvedValues, value))
       IN /\ StartsWith(declarations[k][2], VarOpen)
          /\ ~StartsWith(value, VarOpen)
          /\ canonical # name
          /\ declarations[k][2] # VarCall(canonical)
          /\ Lookup(extraction.aliases, name) = declarations[k][2]

\* the entries of a table, without their order
Entries(table) == {table[i] : i \in 1..Len(table)}

\* the orders the declarations of an input can come in: every order for a
\* small input, the reversed order and every exchange of two neighbours
\* for a longer one
Reorderings(ms) ==
  IF Len(ms) <= MaxDecls
  THEN {[i \in 1..Len(ms) |-> ms[p[i]]] :
          p \in {q \in [1..Len(ms) -> 1..Len(ms)] :
                   \A i, j \in 1..Len(ms) : i # j => q[i] # q[j]}}
  ELSE {[i \in 1..Len(ms) |-> ms[Len(ms) + 1 - i]]}
         \cup {[i \in 1..Len(ms) |-> IF i = n THEN ms[n + 1]
                                      ELSE IF i = n + 1 THEN ms[n] ELSE ms[i]] :
                 n \in 1..(Len(ms) - 1)}

\* C13: for declarations with distinct names, every other order of the
\* declarations gives the same alias table, and an alias made for a shared
\* literal names the member with the shortest name, ties broken by
\* ascending lexical order
C13_CanonicalIgnoresOrder ==
  (Extracted /\ DistinctKeys(matches))
    => /\ \A p \in Reorderings(matches) :
            /\ ~ExtractionOf(p).threw
            /\ Entries(ExtractionOf(p).aliases) = Entries(extraction.aliases)
       /\ \A k \in 1..Len(declarations) :
            (HasKey(extraction.aliases, declarations[k][1])
               /\ ~StartsWith(declarations[k][2], VarOpen))
              => Lookup(extraction.aliases, declarations[k][1])
                   = VarCall(ShortestFirst(PropertiesWith(extraction.resolvedValues,
                                                          declarations[k][2])))

\* C13 witness: in the returned table a property has the alias of a
\* canonical property of the same name length that is declared after it
C13_Witness ==
  /\ Extracted
  /\ DistinctKeys(matches)
  /\ \E j, k \in 1..Len(declarations) :
       /\ k < j
       /\ Len(declarations[j][1]) = Len(declarations[k][1])
       /\ ~StartsWith(declarations[k][2], VarOpen)
       /\ HasKey(extraction.aliases, declarations[k][1])
       /\ Lookup(extraction.aliases, declarations[k][1]) = VarCall(declarations[j][1])

\* C14: in the returned tables, of the properties that share a resolved
\* literal every one but the canonical one has the alias var(canonical)
\* unless it was declared as a var(); the canonical one has no alias to
\* itself; and a property whose resolved value is a var() has no alias but
\* its declared text
C14_SharedLiteralsAliased ==
  Extracted
    => \A k \in 1..Len(declarations) :
         LET name == declarations[k][1]
             value == Lookup(extraction.resolvedValues, name)
             members == PropertiesWith(extraction.resolvedValues, value)
             canonical == ShortestFirst(members)
         IN IF StartsWith(value, VarOpen)
            THEN HasKey(extraction.aliases, name)
                   => Lookup(extraction.aliases, name) = declarations[k][2]
            ELSE Cardinality(members) >= 2
                   => /\ (name # canonical /\ ~StartsWith(declarations[k][2], VarOpen))
                           => /\ HasKey(extraction.aliases, name)
                              /\ Lookup(extraction.aliases, name) = VarCall(canonical)
                      /\ name = canonical
                           => ~(/\ HasKey(extraction.aliases, name)
                                /\ Lookup(extraction.aliases, name) = VarCall(name))

\* C15: the returned resolvedValues has one entry for each scanned
\* property name and no other entry, and every key of the returned aliases
\* is one of its keys
C15_TablesAreComplete ==
  Extracted
    => /\ Keys(extraction.resolvedValues) = {matches[i][1] : i \in 1..Len(matches)}
       /\ DistinctKeys(extraction.resolvedValues)
       /\ Keys(extraction.aliases) \subseteq Keys(extraction.resolvedValues)

\* C15 witness: a property scanned twice and resolved to a var() text has
\* its entry in both returned tables
C15_Witness ==
  /\ Extracted
  /\ Len(matches) > Len(declarations)
  /\ \E k \in 1..Len(extraction.resolvedValues) :
       /\ StartsWith(extraction.resolvedValues[k][2], VarOpen)
       /\ HasKey(extraction.aliases, extraction.resolvedValues[k][1])

\* C29: for declarations whose references are acyclic, the alias table
\* returned is acyclic too: following the aliases p -> var(q) from a property
\* never leads back to it, also when the canonical member of a group is
\* itself declared as var() of another member
C29_AliasesAcyclic ==
  (Extracted /\ Acyclic(declarations))
    => \A k \in 1..Len(extraction.aliases) :
         CycleLengths(extraction.aliases, extraction.aliases[k][1]) = {}

\* ------------------------------------------------------------------------
\* The command line: runTransformation (the console.info calls are left out)
\* ------------------------------------------------------------------------

\* the working directory path.resolve starts from
Cwd == <<"/", "w">>

\* path.resolve, for a path without "." and ".." segments
Resolve(p) == IF p # <<>> /\ Head(p) = "/" THEN p ELSE Cwd \o <<"/">> \o p

\* the last position at or before i where s holds c, or 0
RECURSIVE LastIndexOf(_, _, _)
LastIndexOf(s, c, i) ==
  IF i < 1 THEN 0 ELSE IF s[i] = c THEN i ELSE LastIndexOf(s, c, i - 1)

\* path.dirname of an absolute path
Dirname(p) ==
  LET slash == LastIndexOf(p, "/", Len(p))
  IN IF slash <= 1 THEN <<"/">> ELSE SubSeq(p, 1, slash - 1)

\* path.basename(p)
Basename(p) == SubSeq(p, LastIndexOf(p, "/", Len(p)) + 1, Len(p))

\* path.extname: from the last "." of the base name on, "" when there is
\* none or when the name begins with it
Extname(p) ==
  LET name == Basename(p)
      dot == LastIndexOf(name, ".", Len(name))
  IN IF dot <= 1 THEN <<>> ELSE SubSeq(name, dot, Len(name))

\* path.basename(p, ext)
BasenameWithout(p, ext) ==
  LET name == Basename(p)
  IN IF /\ ext # <<>>
        /\ Len(name) > Len(ext)
        /\ SubSeq(name, Len(name) - Len(ext) + 1, Len(name)) = ext
     THEN SubSeq(name, 1, Len(name) - Len(ext))
     ELSE name

\* path.join(dir, name)
Join(dir, name) == IF dir = <<"/">> THEN dir \o name ELSE dir \o <<"/">> \o name

\* `${outputBaseName}.vars.css`
VarsFileName(outputFile) ==
  BasenameWithout(outputFile, Extname(outputFile)) \o <<".", "v", "a", "r", "s", ".", "c", "s", "s">>

\* [...targetVariables].map((v) => `  ${v}: ;`).join("\n")
RECURSIVE PlaceholderLines(_)
PlaceholderLines(order) ==
  IF order = <<>> THEN <<>>
  ELSE <<" ", " ">> \o Head(order) \o <<":", " ", ";">>
       \o (IF Len(order) > 1 THEN <<"\n">> ELSE <<>>)
       \o PlaceholderLines(Tail(order))

\* const varsContent = `:root {\n${...}\n}\n`
VarsContent(order) == <<":", "r", "o", "o", "t", " ", "{", "\n">> \o PlaceholderLines(order) \o <<"\n", "}", "\n">>

\* const importRule = `@import url('./${varsFileName}');\n\n`
ImportRule(varsFileName) == <<"@", "i", "m", "p", "o", "r", "t", " ", "u", "r", "l", "(", "'", ".", "/">> \o varsFileName \o <<"'", ")", ";", "\n", "\n">>

\* a run that writes the placeholder file whatever the set holds
NeedsCompanionAlways(names) == TRUE

\* if (targetVariables.size > 0)
NeedsCompanion(names) == names # {}

\* the orders a set can be listed in; the Set of the code lists its names
\* in the order they were added, which the set of the model does not keep
Enumerations(names) ==
  { order \in [1..Cardinality(names) -> names] :
      \A j, k \in 1..Cardinality(names) : j # k => order[j] # order[k] }

\* loadMappingConfig: the validated data of the file, or an Error
loadMappingConfig(file) == [raised |-> ~file.ok, config |-> file.content]

\* a merge that also takes the defaultMapping of the overrides file
loadAndMergeTakingBothDefaults(defaultsFile, overrides) ==
  LET defaultConfig == loadMappingConfig(defaultsFile)
      overridesConfig == loadMappingConfig(overrides)
  IN IF defaultConfig.raised \/ overridesConfig.raised THEN defaultConfig
     ELSE [raised |-> FALSE,
           config |-> [defaultMapping |-> SpreadInto(SpreadInto(<<>>, defaultConfig.config.defaultMapping),
                                                     overridesConfig.config.defaultMapping),
                       overrides |-> SpreadInto(SpreadInto(<<>>, defaultConfig.config.overrides),
                                                overridesConfig.config.overrides)]]

\* loadAndMergeMappingConfigs: an unusable overrides file leaves the
\* defaults, an unusable defaults file raises
loadAndMergeMappingConfigs(defaultsFile, overrides) ==
  LET defaultConfig == loadMappingConfig(defaultsFile)
      overridesConfig == loadMappingConfig(overrides)
  IN IF defaultConfig.raised \/ overridesConfig.raised THEN defaultConfig
     ELSE [raised |-> FALSE,
           config |-> [defaultMapping |-> SpreadInto(<<>>, defaultConfig.config.defaultMapping),
                       overrides |-> SpreadInto(SpreadInto(<<>>, defaultConfig.config.overrides),
                                                overridesConfig.config.overrides)]]

\* the runs the model makes
OutputPlain == <<"o", ".", "c", "s", "s">>

OutputInDirectory == <<"d", "/", "o">>

OutputDotFile == <<".", "c">>

Outputs == {OutputPlain, OutputInDirectory, OutputDotFile}

CliStylesheets == {<<>>, CssDeclHex, CssUsage, CssUnclosed}

CliConfigs ==
  { EmptyConfig,
    [defaultMapping |-> <<<<KeyA, ThemeT>>>>, overrides |-> <<>>],
    [defaultMapping |-> <<<<KeyHex, ThemeW>>, <<KeyA, ThemeT>>>>, overrides |-> <<>>],
    [defaultMapping |-> <<<<KeyA, PlainX>>>>, overrides |-> <<<<KeyHex, PlainX>>>>] }

CliOverrides ==
  { [defaultMapping |-> <<<<KeyB, ThemeT>>>>, overrides |-> <<<<KeyA, ThemeW>>>>],
    [defaultMapping |-> <<>>, overrides |-> <<<<KeyHex, ThemeT>>>>] }

InitCli ==
  /\ options \in [output : Outputs, overrides : BOOLEAN, method : Methods]
  /\ inputFile \in {Unreadable} \cup {Readable(css) : css \in CliStylesheets}
  /\ configFile \in {Invalid} \cup {Readable(c) : c \in CliConfigs}
  /\ overridesFile \in {Invalid} \cup {Readable(c) : c \in CliOverrides}
  /\ written = <<>>
  /\ caught = "none"
  /\ cpc = "start"
  /\ TransformIdle
  /\ ExtractIdle
  /\ VisitIdle

\* the try block up to the call of transformCss: readFileSync and the loader
ReadInputs ==
  /\ cpc = "start"
  /\ LET loaded == IF options.overrides
                   THEN loadAndMergeMappingConfigs(configFile, overridesFile)
                   ELSE loadMappingConfig(configFile)
     IN IF ~inputFile.ok
        THEN /\ caught' = "read"
             /\ cpc' = "thrown"
             /\ UNCHANGED <<cssContent, config, method, pc>>
        ELSE IF loaded.raised
        THEN /\ caught' = "config"
             /\ cpc' = "thrown"
             /\ UNCHANGED <<cssContent, config, method, pc>>
        ELSE /\ cssContent' = inputFile.content
             /\ config' = loaded.config
             /\ method' = options.method
             /\ pc' = "call"
             /\ cpc' = "transform"
             /\ UNCHANGED caught
  /\ UNCHANGED <<transformedCss, targetVariables, astTargetVariables, ran,
                 diagnostics, result, uncaught>>
  /\ UNCHANGED <<options, inputFile, configFile, overridesFile, written>>
  /\ UNCHANGED extractVars
  /\ UNCHANGED visitVars

\* the try block from the return of transformCss on: the placeholder file,
\* the import rule and the output file; a writeFileSync may raise
WriteFiles ==
  /\ cpc = "transform"
  /\ pc = "returned"
  /\ IF uncaught
     THEN /\ caught' = "transform"
          /\ cpc' = "thrown"
          /\ UNCHANGED written
     ELSE \E order \in Enumerations(result.targetVariables) :
          \E failing \in {"none", "vars", "output"} :
            LET outputFile == Resolve(options.output)
                varsFileName == VarsFileName(outputFile)
                varsFilePath == Join(Dirname(outputFile), varsFileName)
                companion == NeedsCompanion(result.targetVariables)
                varsWrite == IF companion
                             THEN <<[path |-> varsFilePath, content |-> VarsContent(order)]>>
                             ELSE <<>>
                finalCss == IF companion
                            THEN ImportRule(varsFileName) \o result.css
                            ELSE result.css
            IN CASE failing = "vars" ->
                      /\ companion
                      /\ written' = <<>>
                      /\ caught' = "write"
                      /\ cpc' = "thrown"
                 [] failing = "output" ->
                      /\ written' = varsWrite
                      /\ caught' = "write"
                      /\ cpc' = "thrown"
                 [] OTHER ->
                      /\ written' = varsWrite \o <<[path |-> outputFile, content |-> finalCss]>>
                      /\ cpc' = "done"
                      /\ UNCHANGED caught
  /\ UNCHANGED transformVars
  /\ UNCHANGED <<options, inputFile, configFile, overridesFile>>
  /\ UNCHANGED extractVars
  /\ UNCHANGED visitVars

NextCli ==
  \/ ReadInputs
  \/ Call
  \/ AstSucceeds
  \/ AstRaises
  \/ LiteralsPass
  \/ UsagesPass
  \/ DeclarationsPass
  \/ WriteFiles

SpecCli == InitCli /\ [][NextCli]_vars

\* ------------------------------------------------------------------------
\* Properties of the command line
\* ------------------------------------------------------------------------

\* a path without the extension of its last segment
WithoutExtension(p) ==
  LET dot == LastIndexOf(p, ".", Len(p))
  IN IF dot > LastIndexOf(p, "/", Len(p)) + 1 THEN SubSeq(p, 1, dot - 1) ELSE p

\* the path of the placeholder file of the run
CompanionPath == WithoutExtension(Resolve(options.output)) \o <<".", "v", "a", "r", "s", ".", "c", "s", "s">>

\* the lines of a text, the text after the last line feed being the last
RECURSIVE Lines(_, _)
Lines(text, line) ==
  IF text = <<>> THEN <<line>>
  ELSE IF Head(text) = "\n" THEN <<line>> \o Lines(Tail(text), <<>>)
  ELSE Lines(Tail(text), Append(line, Head(text)))

\* the content is a :root rule holding one declaration with an empty value
\* for each name, and nothing else
IsCompanionContent(content, names) ==
  LET ls == Lines(content, <<>>)
  IN /\ Len(ls) = Cardinality(names) + 3
     /\ ls[1] = <<":", "r", "o", "o", "t", " ", "{">>
     /\ {ls[k] : k \in 2..(Len(ls) - 2)} = {<<" ", " ">> \o v \o <<":", " ", ";">> : v \in names}
     /\ ls[Len(ls) - 1] = <<"}">>
     /\ ls[Len(ls)] = <<>>

\* C20: a run that ends without raising has written the placeholder file
\* next to the output, with one empty declaration per target variable under
\* :root, and then the output with the import of that file before the
\* transformed text, when transformCss returned names; it has written the
\* output, and it alone, with the transformed text as it is when
\* transformCss returned none; a run that raised before its first write has
\* written nothing; and no run writes the placeholder file without names
C20_CompanionIffTargets ==
  /\ cpc = "done"
       => IF result.targetVariables # {}
          THEN /\ Len(written) = 2
               /\ written[1].path = CompanionPath
               /\ IsCompanionContent(written[1].content, result.targetVariables)
               /\ written[2].path = Resolve(options.output)
               /\ written[2].content = ImportRule(Basename(CompanionPath)) \o result.css
          ELSE written = <<[path |-> Resolve(options.output), content |-> result.css]>>
  /\ cpc = "thrown" /\ caught \in {"read", "config", "transform"} => written = <<>>
  /\ \A k \in 1..Len(written) :
       written[k].path = CompanionPath => result.targetVariables # {}

\* a run wrote the placeholder file for two names and the output behind it
C20_Witness ==
  /\ cpc = "done"
  /\ Cardinality(result.targetVariables) = 2
  /\ Len(written) = 2
  /\ written[1].path = CompanionPath

\* C30: with an overrides file given, a defaults file that cannot be loaded
\* makes the load raise; an overrides file that cannot be loaded leaves
\* exactly the configuration of the defaults file; when both load, the
\* defaultMapping is that of the defaults file alone and the overrides are
\* those of the defaults file with the entries of the overrides file on top
C30_MergeKeepsDefaultsOnBadOverrides ==
  (options.overrides /\ cpc # "start" /\ inputFile.ok)
    => IF ~configFile.ok
       THEN cpc = "thrown" /\ caught = "config"
       ELSE /\ caught # "config"
            /\ IF ~overridesFile.ok
               THEN config = configFile.content
               ELSE /\ config.defaultMapping = configFile.content.defaultMapping
                    /\ Keys(config.overrides)
                         = Keys(configFile.content.overrides)
                             \cup Keys(overridesFile.content.overrides)
                    /\ \A key \in Keys(config.overrides) :
                         Lookup(config.overrides, key)
                           = IF HasKey(overridesFile.content.overrides, key)
                             THEN Lookup(overridesFile.content.overrides, key)
                             ELSE Lookup(configFile.content.overrides, key)

\* both files loaded, both hold an override for the same key, and the merged
\* configuration has the one of the overrides file
C30_Witness ==
  /\ options.overrides
  /\ cpc = "transform"
  /\ configFile.ok
  /\ overridesFile.ok
  /\ HasKey(configFile.content.overrides, KeyHex)
  /\ HasKey(overridesFile.content.overrides, KeyHex)
  /\ Lookup(configFile.content.overrides, KeyHex) # Lookup(overridesFile.content.overrides, KeyHex)
  /\ Lookup(config.overrides, KeyHex) = ThemeT

\* ------------------------------------------------------------------------
\* The Declaration visitor on one mapped custom property
\* ------------------------------------------------------------------------

\* the longest replacement string spelled from ValueAlphabet
MaxValueLen == 3

ValueAlphabet == {"0", "1", ".", "-", ",", " ", "p", "x"}

\* every non-empty string over ValueAlphabet up to the length MaxValueLen
SpelledValues == UNION {[1..n -> ValueAlphabet] : n \in 1..MaxValueLen}

\* --t
ValueVariable == <<"-", "-", "t">>

\* var(--t)
ValueVarCall == <<"v", "a", "r", "(", "-", "-", "t", ")">>

\* var( --t )
ValueVarSpaced == <<"v", "a", "r", "(", " ", "-", "-", "t", " ", ")">>

\* var(--t)x
ValueVarTrailing == <<"v", "a", "r", "(", "-", "-", "t", ")", "x">>

\* var(--t, x)
ValueVarFallback == <<"v", "a", "r", "(", "-", "-", "t", ",", " ", "x", ")">>

\* var(t)
ValueVarPlainName == <<"v", "a", "r", "(", "t", ")">>

\* var(x) var(--t)
ValueVarSecond == <<"v", "a", "r", "(", "x", ")", " ", "v", "a", "r", "(", "-", "-", "t", ")">>

\* 1.50PX
ValueDimensionUpper == <<"1", ".", "5", "0", "P", "X">>

\* 10, 20, 30
ValueNumberList == <<"1", "0", ",", " ", "2", "0", ",", " ", "3", "0">>

\* rgba(1,2,3,.5)
ValueRgba == <<"r", "g", "b", "a", "(", "1", ",", "2", ",", "3", ",", ".", "5", ")">>

\* rgba(999,0,0,5)
ValueRgbaOutOfRange == <<"r", "g", "b", "a", "(", "9", "9", "9", ",", "0", ",", "0", ",", "5", ")">>

\* rgba(1,2,3,1)x
ValueRgbaTrailing == <<"r", "g", "b", "a", "(", "1", ",", "2", ",", "3", ",", "1", ")", "x">>

\* rgba(not, valid)
ValueRgbaInvalid == <<"r", "g", "b", "a", "(", "n", "o", "t", ",", " ", "v", "a", "l", "i", "d", ")">>

\* #f
ValueHex == <<"#", "f">>

\* NONE
ValueKeyword == <<"N", "O", "N", "E">>

\* currentColor
ValueCurrentColor == <<"c", "u", "r", "r", "e", "n", "t", "C", "o", "l", "o", "r">>

\* blink
ValueUnknown == <<"b", "l", "i", "n", "k">>

PickedValues ==
  { ValueVariable, ValueVarCall, ValueVarSpaced, ValueVarTrailing,
    ValueVarFallback, ValueVarPlainName, ValueVarSecond, ValueDimensionUpper,
    ValueNumberList, ValueRgba, ValueRgbaOutOfRange, ValueRgbaTrailing,
    ValueRgbaInvalid, ValueHex, ValueKeyword, ValueCurrentColor,
    ValueUnknown }

\* the replacement strings visited: finalMapping[variableName] is truthy, so
\* none is empty
MappedValues == SpelledValues \cup PickedValues

InitVisit ==
  /\ mappedValue \in MappedValues
  /\ newValueTokens = <<>>
  /\ added = {}
  /\ vpc = "visit"
  /\ TransformIdle
  /\ ExtractIdle
  /\ CliIdle

\* Declaration(declaration) for a custom property whose name is a key of
\* finalMapping: the tokens of the value it returns and the names it adds
VisitMapped ==
  /\ vpc = "visit"
  /\ newValueTokens' = NewValueTokens(mappedValue)
  /\ added' = VisitorTargets(mappedValue)
  /\ vpc' = "returned"
  /\ UNCHANGED mappedValue
  /\ UNCHANGED transformVars
  /\ UNCHANGED extractVars
  /\ UNCHANGED cliVars

NextVisit == VisitMapped

SpecVisit == InitVisit /\ [][NextVisit]_vars

\* ------------------------------------------------------------------------
\* Properties of the visitor
\* ------------------------------------------------------------------------

\* a dashed identifier: "--" and at least one more letter, digit, "_" or "-"
IsDashedIdentifier(name) ==
  /\ Len(name) >= 3
  /\ StartsWith(name, Dashes)
  /\ \A k \in 1..Len(name) : IsWordOrDash(name[k])

\* the name a replacement string refers to when it denotes a variable
\* reference: the string itself when it starts with "--", the name inside
\* when it is var(--name); <<>> when it denotes none
ReferencedName(v) ==
  IF StartsWith(v, Dashes) THEN v
  ELSE IF /\ Len(v) >= 8
          /\ StartsWith(v, VarOpen)
          /\ v[Len(v)] = ")"
          /\ IsDashedIdentifier(SubSeq(v, 5, Len(v) - 1))
  THEN SubSeq(v, 5, Len(v) - 1)
  ELSE <<>>

\* C21: when the replacement of a mapped custom property starts with "--" or
\* is var(--name), the visitor returns a single var() call of that name as
\* the value and gives the name to targetVariables
C21_ReferencesWrappedAndRecorded ==
  vpc = "returned" /\ ReferencedName(mappedValue) # <<>>
    => /\ newValueTokens = <<VarFunction(ReferencedName(mappedValue))>>
       /\ ReferencedName(mappedValue) \in added

\* a bare decimal number: an optional "-", digits, and at most one point
\* with digits on both sides
IsNumberText(s) ==
  LET body == IF s # <<>> /\ Head(s) = "-" THEN Tail(s) ELSE s
  IN /\ body # <<>>
     /\ \A k \in 1..Len(body) : body[k] \in Digits \cup {"."}
     /\ Cardinality({k \in 1..Len(body) : body[k] = "."}) <= 1
     /\ body[1] \in Digits
     /\ body[Len(body)] \in Digits

\* a number immediately followed by a unit of the vocabulary
IsDimensionText(s) ==
  \E k \in 1..(Len(s) - 1) :
    /\ IsNumberText(SubSeq(s, 1, k))
    /\ LowerCase(SubSeq(s, k + 1, Len(s))) \in Units

\* the texts between the commas of s, as the pairs of positions around them
CommaBounds(s) == {0, Len(s) + 1} \cup {k \in 1..Len(s) : s[k] = ","}

\* s holds a comma and every text between commas is a bare number
IsNumberListText(s) ==
  /\ CommaBounds(s) # {0, Len(s) + 1}
  /\ \A a, b \in CommaBounds(s) :
       a < b /\ (\A c \in CommaBounds(s) : ~(a < c /\ c < b))
         => IsNumberText(Trim(SubSeq(s, a + 1, b - 1)))

\* the vocabulary of keywords, in lower case
KeywordVocabulary ==
  { <<"n", "o", "n", "e">>,
    <<"i", "n", "h", "e", "r", "i", "t">>,
    <<"i", "n", "i", "t", "i", "a", "l">>,
    <<"u", "n", "s", "e", "t">>,
    <<"r", "e", "v", "e", "r", "t">>,
    <<"a", "u", "t", "o">>,
    <<"s", "o", "l", "i", "d">>,
    <<"t", "r", "a", "n", "s", "p", "a", "r", "e", "n", "t">>,
    <<"c", "u", "r", "r", "e", "n", "t", "c", "o", "l", "o", "r">> }

\* the first rule a replacement string matches, in the order of the list
FirstRule(v) ==
  IF StartsWith(v, Dashes) THEN "variable prefix"
  ELSE IF StartsWith(v, VarOpen) THEN "var("
  ELSE IF IsDimensionText(v) THEN "dimension"
  ELSE IF IsNumberText(v) THEN "plain number"
  ELSE IF StartsWith(v, <<"#">>) THEN "hex colour"
  ELSE IF StartsWith(v, RgbaOpen) THEN "rgba("
  ELSE IF IsNumberListText(v) THEN "number list"
  ELSE IF LowerCase(v) \in KeywordVocabulary THEN "keyword"
  ELSE "none"

\* the tokens are a keyword or an opaque value carrying v unchanged
CarriesRaw(tokens, v) == tokens = <<IdentToken(v)>>

\* the tokens are of the kind the rule calls for
OfKind(tokens, rule, v) ==
  CASE rule = "variable prefix" -> tokens = <<VarFunction(v)>>
    [] rule = "var(" -> \/ Len(tokens) = 1 /\ tokens[1].type = "function"
                        \/ CarriesRaw(tokens, v)
    [] rule = "dimension" -> Len(tokens) = 1 /\ tokens[1].type = "dimension"
    [] rule = "plain number" -> Len(tokens) = 1 /\ tokens[1].type = "number"
    [] rule = "hex colour" -> tokens = <<HashToken(Tail(v))>>
    [] rule = "rgba(" -> \/ Len(tokens) = 1 /\ tokens[1].type = "color"
                         \/ CarriesRaw(tokens, v)
    [] rule = "number list" ->
         /\ Len(tokens) > 1
         /\ \A k \in 1..Len(tokens) : tokens[k].type \in {"number", "comma", "white-space"}
    [] OTHER -> CarriesRaw(tokens, v)

\* C23: every replacement string is given a value, of the kind of the first
\* rule it matches in the order variable prefix, var(, dimension, plain
\* number, hex colour, rgba(, number list, keyword; a string that matches
\* none is carried unchanged as an opaque value
C23_ClassificationTotalAndOrdered ==
  vpc = "returned"
    => /\ newValueTokens # <<>>
       /\ OfKind(newValueTokens, FirstRule(mappedValue), mappedValue)

\* a string that matches no rule was visited and is carried unchanged
C23_Witness ==
  /\ vpc = "returned"
  /\ mappedValue = ValueUnknown
  /\ FirstRule(mappedValue) = "none"
  /\ newValueTokens = <<IdentToken(ValueUnknown)>>

\* the name of a replacement string that is, as a whole, var(<dashed
\* identifier>) with optional white space inside the parentheses; <<>> for
\* every other string
WholeVarName(v) ==
  LET inner == Trim(SubSeq(v, 5, Len(v) - 1))
  IN IF /\ StartsWith(v, VarOpen)
        /\ v[Len(v)] = ")"
        /\ IsDashedIdentifier(inner)
     THEN inner
     ELSE <<>>

\* C24: a replacement string that begins with "var(" becomes the var() call
\* of its name when the whole string is var(<dashed identifier>), and is
\* carried unchanged as an opaque value in every other case
C24_VarFormAnchored ==
  vpc = "returned" /\ StartsWith(mappedValue, VarOpen)
    => IF WholeVarName(mappedValue) # <<>>
       THEN newValueTokens = <<VarFunction(WholeVarName(mappedValue))>>
       ELSE CarriesRaw(newValueTokens, mappedValue)

DigitValue ==
  ("0" :> 0) @@ ("1" :> 1) @@ ("2" :> 2) @@ ("3" :> 3) @@ ("4" :> 4) @@ ("5" :> 5)
  @@ ("6" :> 6) @@ ("7" :> 7) @@ ("8" :> 8) @@ ("9" :> 9)

\* the natural number a text of digits writes
RECURSIVE NaturalOf(_)
NaturalOf(digits) ==
  IF digits = <<>> THEN 0
  ELSE 10 * NaturalOf(SubSeq(digits, 1, Len(digits) - 1)) + DigitValue[digits[Len(digits)]]

\* the text writes an integer of 0..255
IsColourComponent(num) ==
  /\ num # <<>>
  /\ \A k \in 1..Len(num) : num[k] \in Digits
  /\ NaturalOf(num) <= 255

\* the text writes a number of 0..1: 1 itself, or a number with the whole
\* part 0
IsAlpha(num) ==
  \/ num = <<"1">>
  \/ /\ num # <<>>
     /\ Head(num) = "0"
     /\ Len(num) = 1 \/ num[2] = "."

\* the whole string is one rgba(...) call
IsWholeRgbaCall(v) ==
  /\ RgbaGroupsAt(v, 1) # <<>>
  /\ v[Len(v)] = ")"
  /\ Cardinality({k \in 1..Len(v) : v[k] = ")"}) = 1

\* C25: a replacement string that begins with "rgba(" becomes a colour only
\* when the whole string is the rgba(...) call, and then with red, green and
\* blue integers of 0..255 and an alpha of 0..1; every other such string is
\* carried unchanged as an opaque value
C25_RgbaComponentsInRange ==
  vpc = "returned" /\ StartsWith(mappedValue, RgbaOpen)
    => IF newValueTokens[1].type = "color"
       THEN /\ IsWholeRgbaCall(mappedValue)
            /\ \A k \in 1..3 : IsColourComponent(newValueTokens[1].parts[k])
            /\ IsAlpha(newValueTokens[1].parts[4])
       ELSE CarriesRaw(newValueTokens, mappedValue)

\* the k-th text between the commas of s
SegmentOf(s, k) ==
  LET from == CHOOSE a \in CommaBounds(s) :
                Cardinality({c \in CommaBounds(s) : c < a}) = k - 1
      to == CHOOSE b \in CommaBounds(s) :
              Cardinality({c \in CommaBounds(s) : c < b}) = k
  IN SubSeq(s, from + 1, to - 1)

\* C26: a replacement string with a comma whose n texts between commas are
\* all bare numbers becomes 3n-2 tokens: the n numbers in their order, and
\* between two of them a comma token and then a white-space token; any other
\* string gets no comma token
C26_NumberListTokens ==
  vpc = "returned"
    => IF IsNumberListText(mappedValue)
       THEN LET n == Cardinality(CommaBounds(mappedValue)) - 1
            IN /\ Len(newValueTokens) = 3 * n - 2
               /\ \A k \in 1..n :
                    newValueTokens[3 * k - 2]
                      = NumberToken(ParseFloat(Trim(SegmentOf(mappedValue, k))))
               /\ \A k \in 1..(n - 1) :
                    /\ newValueTokens[3 * k - 1] = CommaToken
                    /\ newValueTokens[3 * k] = WhiteSpaceToken
       ELSE \A k \in 1..Len(newValueTokens) : newValueTokens[k].type # "comma"

\* the list 10, 20, 30 was visited and gave seven tokens
C26_Witness ==
  /\ vpc = "returned"
  /\ mappedValue = ValueNumberList
  /\ Len(newValueTokens) = 7
  /\ newValueTokens[7] = NumberToken(<<"3", "0">>)

====
